---- MODULE Spec2Model ----
(***************************************************************************)
(* A model of DungeonFox/cubes: the entity classes and CubeStorage of      *)
(* src/models.js (an IndexedDB-backed store with validation, multi-store   *)
(* transactions and an in-memory spatial index).                           *)
(*                                                                         *)
(* JavaScript values are tagged tuples, so that "typeof", Array.isArray    *)
(* and a missing property are things the model computes:                   *)
(*   <<"undefined">>, <<"NaN">>, <<"number", n>>, <<"string", chars>>,     *)
(*   <<"array", elements>>, <<"object", record>>.                          *)
(* Numbers are integers; a string is its sequence of one-character         *)
(* strings, so that template-literal concatenation is \o.                  *)
(***************************************************************************)
EXTENDS Integers, Sequences, FiniteSets, TLC

VARIABLES
  db,            \* CubeStorage.db: "null" or "open"
  opening,       \* an indexedDB.open request of init() is in flight
  store,         \* the committed contents of every object store
  tx,            \* the readwrite transaction of the write call in flight
  call,          \* the write call in flight (its promise and its position)
  ret,           \* the outcome of the operation that reported last
  spatialIndex,  \* the index object returned by the last buildSpatialIndex
  hist,          \* bookkeeping for the properties (never read by an action)
  painter,       \* the Painter: binSize, ambientValue and the entries of this.bins
  paints         \* bookkeeping for the properties: the createBins calls made

vars == <<db, opening, store, tx, call, ret, spatialIndex, hist, painter, paints>>

(***************************************************************************)
(* Bounds of the model.                                                    *)
(***************************************************************************)
\* how many API calls one behaviour makes
MaxCalls == 2
\* how many createBins calls one behaviour makes
MaxPaints == 3

(***************************************************************************)
(* JavaScript values.                                                      *)
(***************************************************************************)
Undefined == <<"undefined">>
NaN == <<"NaN">>
Infinity == <<"Infinity">>
NegInfinity == <<"-Infinity">>
Num(n) == <<"number", n>>
Str(s) == <<"string", s>>
Arr(s) == <<"array", s>>
Obj(r) == <<"object", r>>

IsArray(v) == v[1] = "array"
IsNumber(v) == v[1] = "number"
IsString(v) == v[1] = "string"
IsObject(v) == v[1] = "object"
\* typeof v === "number" (NaN and the infinities are of type number)
TypeofNumber(v) == v[1] \in {"number", "NaN", "Infinity", "-Infinity"}
Length(v) == Len(v[2])
\* v[i] with JavaScript's 0-based index; undefined off the end or on a non-array
At(v, i) == IF IsArray(v) /\ i + 1 \in 1..Len(v[2]) THEN v[2][i + 1] ELSE Undefined
\* e.f : undefined when the object has no such property
Field(e, f) == IF IsObject(e) /\ f \in DOMAIN e[2] THEN e[2][f] ELSE Undefined
\* e.f = v, in place
SetField(e, f, v) ==
  Obj([g \in (DOMAIN e[2]) \cup {f} |-> IF g = f THEN v ELSE e[2][g]])

DigitChars == <<"0", "1", "2", "3", "4", "5", "6", "7", "8", "9">>

RECURSIVE NatToChars(_)
NatToChars(n) ==
  IF n < 10 THEN <<DigitChars[n + 1]>>
  ELSE NatToChars(n \div 10) \o <<DigitChars[(n % 10) + 1]>>

\* String(n) for an integer
IntToChars(n) == IF n < 0 THEN <<"-">> \o NatToChars(-n) ELSE NatToChars(n)

\* `${v}` : the characters a template literal interpolates for v
ToChars(v) ==
  CASE IsNumber(v) -> IntToChars(v[2])
    [] IsString(v) -> v[2]
    [] v = NaN -> <<"N", "a", "N">>
    [] OTHER -> <<"u", "n", "d", "e", "f", "i", "n", "e", "d">>

IsDigit(c) == \E i \in 1..10 : DigitChars[i] = c
DigitValue(c) == (CHOOSE i \in 1..10 : DigitChars[i] = c) - 1

RECURSIVE CharsToNat(_)
CharsToNat(s) ==
  IF s = <<>> THEN 0
  ELSE 10 * CharsToNat(SubSeq(s, 1, Len(s) - 1)) + DigitValue(s[Len(s)])

\* the number a relational operator coerces v to (strings of digits parse,
\* any other string and undefined give NaN)
ToNumber(v) ==
  CASE IsNumber(v) \/ v \in {Infinity, NegInfinity} -> v
    [] IsString(v) /\ (\A i \in 1..Len(v[2]) : IsDigit(v[2][i])) -> Num(CharsToNat(v[2]))
    [] OTHER -> NaN

\* a < b and a > b of JavaScript: false as soon as an operand is NaN
JsLess(a, b) ==
  LET x == ToNumber(a)
      y == ToNumber(b)
  IN  /\ x # NaN /\ y # NaN /\ x # y
      /\ \/ x = NegInfinity
         \/ y = Infinity
         \/ IsNumber(x) /\ IsNumber(y) /\ x[2] < y[2]

\* a <= b and a >= b of JavaScript
JsLeq(a, b) ==
  LET x == ToNumber(a)
      y == ToNumber(b)
  IN  x # NaN /\ y # NaN /\ (x = y \/ JsLess(a, b))

(***************************************************************************)
(* The entity classes.                                                     *)
(***************************************************************************)
CubeVertex(vertexID, windowUID, position, color, blendingLogicId) ==
  Obj([vertexID |-> vertexID,
       windowUID |-> windowUID,
       valueArray |-> Arr(<<position, color>>),
       blendingLogicId |-> blendingLogicId])

Cube(id, windowUID, position, subcubeIDs, vertices, blendingLogicId) ==
  Obj([id |-> id,
       windowUID |-> windowUID,
       value |-> Arr(<<position, subcubeIDs,
                       Arr([i \in 1..Len(vertices) |-> Field(vertices[i], "valueArray")])>>),
       blendingLogicId |-> blendingLogicId])

\* -v : the negation of the number v coerces to
Negate(v) ==
  CASE IsNumber(ToNumber(v)) -> Num(-(ToNumber(v)[2]))
    [] ToNumber(v) = Infinity -> NegInfinity
    [] ToNumber(v) = NegInfinity -> Infinity
    [] OTHER -> NaN

\* weight >= 0 ? weight : -weight  (a comparison with NaN is false)
calculateProximityPadding(weight) ==
  IF JsLeq(Num(0), weight) THEN weight ELSE Negate(weight)

SubcubeVertex(id, windowUID, cubeId, subCubeID, originID, value, activeWindowUID) ==
  Obj([id |-> id,
       windowUID |-> windowUID,
       cubeId |-> cubeId,
       subCubeID |-> subCubeID,
       originID |-> originID,
       value |-> value,
       activeWindowUID |-> activeWindowUID,
       proximityPadding |-> calculateProximityPadding(At(value, 2))])

Subcube(id, windowUID, center, order, vertexArray, cubeId, originID, blendingLogicId) ==
  Obj([id |-> id,
       windowUID |-> windowUID,
       center |-> center,
       order |-> order,
       vertexArray |-> vertexArray,
       cubeId |-> cubeId,
       originID |-> originID,
       blendingLogicId |-> blendingLogicId])

(***************************************************************************)
(* The schema init() creates (onupgradeneeded).                            *)
(***************************************************************************)
HierarchyStores == <<"Cubes", "Subcubes", "SubcubeVertices", "CubeVertices">>
MatrixStores == {"CubeMatrix", "SubcubeMatrix", "BackgroundMatrix"}
StoreNames ==
  {"Cubes", "CubeVertices", "Subcubes", "SubcubeVertices"} \cup MatrixStores
    \cup {"BlendingLogic", "ZAxisConfig"}

keyPath(storeName) ==
  CASE storeName = "CubeVertices" -> "vertexID"
    [] storeName = "BlendingLogic" -> "logicId"
    [] OTHER -> "id"

\* the indices of a store that are keyed by a top-level property
Indexes(storeName) ==
  CASE storeName = "Cubes" -> {"windowUID", "activeWindowUID", "blendingLogicId"}
    [] storeName = "CubeVertices" -> {"windowUID", "activeWindowUID"}
    [] storeName = "Subcubes" ->
         {"cubeId", "windowUID", "activeWindowUID", "originID", "blendingLogicId"}
    [] storeName = "SubcubeVertices" ->
         {"cubeId", "subCubeID", "originID", "windowUID", "activeWindowUID",
          "proximityPadding"}
    [] storeName = "CubeMatrix" -> {"windowUID", "redLayer", "greenLayer", "blueLayer", "binData"}
    [] storeName = "SubcubeMatrix" ->
         {"cubeId", "windowUID", "redLayer", "greenLayer", "blueLayer", "binData"}
    [] storeName = "BackgroundMatrix" ->
         {"ambientValue", "windowUID", "redLayer", "greenLayer", "blueLayer", "binData",
          "blendingLogicId"}
    [] storeName = "ZAxisConfig" -> {"cameraPosition", "userDefinedPoint"}
    [] OTHER -> {}

(***************************************************************************)
(* The persistent store the code runs on (IndexedDB): keys and their       *)
(* order, put by in-line key, get by key, getAll by index.  An object      *)
(* store is a function from the keys present to the records stored.        *)
(***************************************************************************)
\* a value IndexedDB accepts as a key (numbers and strings; NaN is refused)
ValidKey(k) == IsNumber(k) \/ IsString(k)

\* the characters the model's strings are made of, in code-unit order
Alphabet == DigitChars \o <<"A", "B", "r", "t", "v", "x">>
CharCode(c) == CHOOSE i \in 1..Len(Alphabet) : Alphabet[i] = c

RECURSIVE CharsLess(_, _)
CharsLess(a, b) ==
  IF b = <<>> THEN FALSE
  ELSE IF a = <<>> THEN TRUE
  ELSE IF a[1] # b[1] THEN CharCode(a[1]) < CharCode(b[1])
  ELSE CharsLess(Tail(a), Tail(b))

\* the order of keys: every number before every string
KeyLess(a, b) ==
  CASE IsNumber(a) /\ IsNumber(b) -> a[2] < b[2]
    [] IsNumber(a) /\ IsString(b) -> TRUE
    [] IsString(a) /\ IsString(b) -> CharsLess(a[2], b[2])
    [] OTHER -> FALSE

RECURSIVE SortKeys(_)
SortKeys(ks) ==
  IF ks = {} THEN <<>>
  ELSE LET m == CHOOSE k \in ks : \A j \in ks \ {k} : KeyLess(k, j)
       IN  <<m>> \o SortKeys(ks \ {m})

EmptyStores == [s \in StoreNames |-> <<>>]

ExtractKey(entity, storeName) == Field(entity, keyPath(storeName))

\* objectStore.put(entity): insert, or replace the record of the same key
StorePut(stores, storeName, entity) ==
  LET k == ExtractKey(entity, storeName)
      old == stores[storeName]
  IN  [stores EXCEPT ![storeName] =
         [j \in (DOMAIN old) \cup {k} |-> IF j = k THEN entity ELSE old[j]]]

\* a get that answers a miss with the key it was asked for
StoreGetEchoingMiss(stores, storeName, key) ==
  IF key \in DOMAIN stores[storeName] THEN stores[storeName][key] ELSE key

\* objectStore.get(key): undefined on a miss
StoreGet(stores, storeName, key) ==
  IF key \in DOMAIN stores[storeName] THEN stores[storeName][key] ELSE Undefined

\* index.getAll(value): the records whose indexed property is that key, in
\* primary-key order
IndexGetAll(stores, storeName, indexName, value) ==
  LET recs == stores[storeName]
      hits == {k \in DOMAIN recs : Field(recs[k], indexName) = value}
      order == SortKeys(hits)
  IN  [i \in 1..Len(order) |-> recs[order[i]]]

(***************************************************************************)
(* CubeStorage: validation.                                                *)
(***************************************************************************)
\* color.some(c => c < 0 || c > 255)
ColorOutOfRange(color) ==
  \E i \in 1..Length(color) : JsLess(color[2][i], Num(0)) \/ JsLess(Num(255), color[2][i])

\* the error the switch of validateEntity throws for the entity ("none": it
\* falls through to return true)
ShapeError(entity, storeName) ==
  LET valueArray == Field(entity, "valueArray")
      color == At(valueArray, 0)
      position == At(valueArray, 1)
      weight == At(valueArray, 2)
      proximity == At(valueArray, 3)
      vertexArray == Field(entity, "vertexArray")
      center == Field(entity, "center")
  IN  CASE storeName \in {"CubeVertices", "SubcubeVertices"} ->
             (CASE ~IsArray(valueArray) \/ Length(valueArray) # 4 -> "InvalidValueArray"
                [] ~IsArray(color) \/ Length(color) # 3 \/ ColorOutOfRange(color) ->
                     "InvalidColor"
                [] ~IsArray(position) \/ Length(position) # 3 -> "InvalidPosition"
                [] ~TypeofNumber(weight) \/ weight = NaN -> "InvalidWeight"
                [] ~IsString(proximity) -> "InvalidProximity"
                [] OTHER -> "none")
        [] storeName = "Subcubes" ->
             (CASE ~IsArray(vertexArray)
                     \/ ~(\A i \in 1..Length(vertexArray) :
                            IsArray(vertexArray[2][i]) /\ Length(vertexArray[2][i]) = 2) ->
                     "InvalidVertexArray"
                [] ~IsArray(center) \/ Length(center) # 3 -> "InvalidCenter"
                [] OTHER -> "none")
        [] storeName \in MatrixStores ->
             (CASE ~IsArray(Field(entity, "redLayer")) \/ ~IsArray(Field(entity, "greenLayer"))
                     \/ ~IsArray(Field(entity, "blueLayer")) -> "InvalidLayers"
                [] ~IsArray(Field(entity, "binData")) -> "InvalidBinData"
                [] OTHER -> "none")
        [] OTHER -> "none"

\* validateEntity without its guard: what a version that forgot it throws
ValidationErrorNoGuard(entity, storeName) == ShapeError(entity, storeName)

\* the error validateEntity throws: the guard on this.db, then the switch
ValidationError(entity, storeName) ==
  IF db = "null" THEN "NotInitialized" ELSE ShapeError(entity, storeName)

ValidationErrors ==
  {"InvalidValueArray", "InvalidColor", "InvalidPosition", "InvalidWeight",
   "InvalidProximity", "InvalidVertexArray", "InvalidCenter", "InvalidLayers",
   "InvalidBinData"}

\* the entity as validateEntity leaves it: a vertex that passed gets
\* entity.proximityPadding = weight >= 0 ? weight : -weight
validateEntity(entity, storeName) ==
  IF storeName \in {"CubeVertices", "SubcubeVertices"}
       /\ ValidationError(entity, storeName) = "none"
  THEN SetField(entity, "proximityPadding",
                calculateProximityPadding(At(Field(entity, "valueArray"), 2)))
  ELSE entity

\* the check with == for ===: a number equal to the digits passes
validateOriginIDLoose(originID, windowUID, cubeId) ==
  ToChars(originID) = ToChars(windowUID) \o ToChars(cubeId)

\* validateOriginID returns true: originID === `${windowUID}${cubeId}`
validateOriginID(originID, windowUID, cubeId) ==
  originID = Str(ToChars(windowUID) \o ToChars(cubeId))

(***************************************************************************)
(* Promises, transactions and the call in flight.                          *)
(***************************************************************************)
NoTx == [state |-> "none", scope |-> {}, queue |-> <<>>, work |-> EmptyStores]
NoCall == [op |-> "none", pc |-> "none", promise |-> "none", args |-> <<>>,
           operationsCompleted |-> 0, totalOperations |-> 0]
NoRet == [op |-> "none", status |-> "none", error |-> "none", value |-> Undefined,
          args |-> <<>>]
NoIndex == [built |-> FALSE, windowUID |-> Undefined, binSize |-> 0, bins |-> <<>>]

Resolved(op, value) == [NoRet EXCEPT !.op = op, !.status = "resolved", !.value = value]
Rejected(op, error) == [NoRet EXCEPT !.op = op, !.status = "rejected", !.error = error]
\* the outcome of a call, with the arguments it was called with
Of(outcome, args) == [outcome EXCEPT !.args = args]
NoHist == [n |-> 0, snap |-> EmptyStores]

\* no write call is running and its transaction has finished
Idle == call.op = "none" /\ tx.state \in {"none", "committed", "aborted"}
CanCall == Idle /\ hist.n < MaxCalls

\* the bookkeeping of a call: its number
Counted == [hist EXCEPT !.n = hist.n + 1]

\* db.transaction(scope, "readwrite") with the put requests issued on it
OpenTx(scope, requests) ==
  [state |-> "active", scope |-> scope, queue |-> requests, work |-> store]

\* a put request: the store it was issued on and the record
Request(storeName, entity) == [storeName |-> storeName, entity |-> entity]

\* store.put(entity) throws a DataError when the in-line key is missing or invalid
PutThrows(req) == ~ValidKey(ExtractKey(req.entity, req.storeName))

\* transaction.objectStore(name) throws a NotFoundError outside the scope
ObjectStoreThrows(req, scope) == req.storeName \notin scope

\* the requests issued before the first statement that throws (all, when none does)
RECURSIVE IssuedPrefix(_, _)
IssuedPrefix(reqs, scope) ==
  IF reqs = <<>> \/ ObjectStoreThrows(Head(reqs), scope) \/ PutThrows(Head(reqs)) THEN <<>>
  ELSE <<Head(reqs)>> \o IssuedPrefix(Tail(reqs), scope)

\* the exception that ends the executor early
ThrownBy(req, scope) ==
  IF ObjectStoreThrows(req, scope) THEN "NotFoundError" ELSE "DataError"

(***************************************************************************)
(* init() and close().                                                     *)
(***************************************************************************)
\* init(): indexedDB.open(dbName, version)
InitCall ==
  /\ ~opening
  /\ opening' = TRUE
  /\ UNCHANGED <<painter, paints, db, store, tx, call, ret, spatialIndex, hist>>

\* request.onsuccess: this.db = request.result; resolve()
InitSuccess ==
  /\ opening
  /\ opening' = FALSE
  /\ db' = "open"
  /\ UNCHANGED <<painter, paints, store, tx, call, ret, spatialIndex, hist>>

\* request.onerror: reject(request.error)
InitError ==
  /\ opening
  /\ opening' = FALSE
  /\ UNCHANGED <<painter, paints, db, store, tx, call, ret, spatialIndex, hist>>

\* close(): the connection closes once its transactions have finished
Close ==
  /\ db = "open"
  /\ db' = "null"
  /\ UNCHANGED <<painter, paints, opening, store, tx, call, ret, spatialIndex, hist>>

(***************************************************************************)
(* validateEntity(entity, storeName), called on its own.                   *)
(***************************************************************************)
\* the promise of the async method: fulfilled with true, or rejected with
\* the error thrown
ValidateEntity(entity, storeName) ==
  /\ Idle
  /\ ret' = Of(IF ValidationError(entity, storeName) = "none"
               THEN Resolved("validateEntity", <<"boolean", TRUE>>)
               ELSE Rejected("validateEntity", ValidationError(entity, storeName)),
               <<entity, storeName>>)
  /\ UNCHANGED <<painter, paints, db, opening, store, tx, call, spatialIndex, hist>>

(***************************************************************************)
(* save(entity, storeName).                                                *)
(***************************************************************************)
\* the call up to its await: validateEntity runs and the caller gets the promise
SaveCall(entity, storeName) ==
  /\ CanCall
  /\ hist' = Counted
  /\ IF ValidationError(entity, storeName) # "none"
     THEN /\ ret' = Of(Rejected("save", ValidationError(entity, storeName)),
                       Request(storeName, entity))
          /\ call' = NoCall
     ELSE /\ call' = [NoCall EXCEPT !.op = "save", !.pc = "validated",
                         !.promise = "pending",
                         !.args = Request(storeName, validateEntity(entity, storeName))]
          /\ ret' = NoRet
  /\ tx' = NoTx
  /\ UNCHANGED <<painter, paints, db, opening, store, spatialIndex>>

\* the continuation with the originID check made after the put was issued
SaveContinueWriteFirst ==
  /\ call.op = "save" /\ call.pc = "validated"
  /\ LET req == call.args
         entity == req.entity
         storeName == req.storeName
         mismatch == storeName \in {"Subcubes", "SubcubeVertices"}
                       /\ ~validateOriginID(Field(entity, "originID"),
                                            Field(entity, "windowUID"), Field(entity, "cubeId"))
     IN  IF db = "null"
         THEN /\ ret' = Of(Rejected("save", "NotInitialized"), req)
              /\ call' = NoCall
              /\ tx' = NoTx
         ELSE IF PutThrows(req)
         THEN /\ ret' = Of(Rejected("save", "DataError"), req)
              /\ call' = [call EXCEPT !.pc = "issued", !.promise = "rejected"]
              /\ tx' = OpenTx({storeName}, <<>>)
         ELSE /\ ret' = IF mismatch THEN Of(Rejected("save", "InvalidOriginID"), req) ELSE NoRet
              /\ call' = [call EXCEPT !.pc = "issued", !.totalOperations = 1,
                                      !.promise = IF mismatch THEN "rejected" ELSE "pending"]
              /\ tx' = OpenTx({storeName}, <<req>>)
  /\ UNCHANGED <<painter, paints, db, opening, store, spatialIndex, hist>>

\* after the await: the originID check, then the promise executor
SaveContinue ==
  /\ call.op = "save" /\ call.pc = "validated"
  /\ LET req == call.args
         entity == req.entity
         storeName == req.storeName
     IN  IF storeName \in {"Subcubes", "SubcubeVertices"}
              /\ ~validateOriginID(Field(entity, "originID"), Field(entity, "windowUID"),
                                   Field(entity, "cubeId"))
         THEN /\ ret' = Of(Rejected("save", "InvalidOriginID"), req)
              /\ call' = NoCall
              /\ tx' = NoTx
         ELSE IF db = "null"
         THEN /\ ret' = Of(Rejected("save", "NotInitialized"), req)
              /\ call' = NoCall
              /\ tx' = NoTx
         ELSE IF PutThrows(req)
         THEN /\ ret' = Of(Rejected("save", "DataError"), req)
              /\ call' = [call EXCEPT !.pc = "issued", !.promise = "rejected"]
              /\ tx' = OpenTx({storeName}, <<>>)
         ELSE /\ ret' = NoRet
              /\ call' = [call EXCEPT !.pc = "issued", !.totalOperations = 1]
              /\ tx' = OpenTx({storeName}, <<req>>)
  /\ UNCHANGED <<painter, paints, db, opening, store, spatialIndex, hist>>

(***************************************************************************)
(* updateCubeHierarchy(cubeData) and batchUpdateMatrices(matrixUpdates).   *)
(***************************************************************************)
\* cubeData.xs ? cubeData.xs : [] as a sequence
ListOf(cubeData, f) ==
  IF IsArray(Field(cubeData, f)) THEN Field(cubeData, f)[2] ELSE <<>>

\* the puts of updateCubeHierarchy, in the order the executor issues them
HierarchyRequests(cubeData) ==
  LET puts(f, storeName) ==
        [i \in 1..Len(ListOf(cubeData, f)) |-> Request(storeName, ListOf(cubeData, f)[i])]
  IN  <<Request("Cubes", Field(cubeData, "cube"))>>
        \o puts("subcubes", "Subcubes")
        \o puts("subcubeVertices", "SubcubeVertices")
        \o puts("cubeVertices", "CubeVertices")

\* the whole synchronous part of the call: the guard, the transaction, every put
UpdateCubeHierarchy(cubeData) ==
  /\ CanCall
  /\ hist' = Counted
  /\ LET reqs == HierarchyRequests(cubeData)
         scope == {"Cubes", "Subcubes", "SubcubeVertices", "CubeVertices"}
         issued == IssuedPrefix(reqs, scope)
     IN  IF db = "null"
         THEN /\ ret' = Of(Rejected("updateCubeHierarchy", "NotInitialized"), cubeData)
              /\ call' = NoCall
              /\ tx' = NoTx
         ELSE /\ tx' = OpenTx(scope, issued)
              /\ call' = [NoCall EXCEPT !.op = "updateCubeHierarchy", !.pc = "issued",
                             !.promise = IF issued = reqs THEN "pending" ELSE "rejected",
                             !.args = cubeData,
                             !.totalOperations = Len(reqs)]
              /\ ret' = IF issued = reqs THEN NoRet
                        ELSE Of(Rejected("updateCubeHierarchy", "DataError"), cubeData)
  /\ UNCHANGED <<painter, paints, db, opening, store, spatialIndex>>

\* the object stores batchUpdateMatrices opens its transaction on
BatchStoreNames(matrixUpdates) ==
  {matrixUpdates[i].type : i \in 1..Len(matrixUpdates)} \cap MatrixStores

BatchRequests(matrixUpdates) ==
  [i \in 1..Len(matrixUpdates) |-> Request(matrixUpdates[i].type, matrixUpdates[i].matrix)]

\* the call on a database whose transaction([]) does not throw
BatchUpdateMatricesEmptyScope(matrixUpdates) ==
  /\ CanCall
  /\ hist' = Counted
  /\ LET scope == BatchStoreNames(matrixUpdates)
         reqs == BatchRequests(matrixUpdates)
         issued == IssuedPrefix(reqs, scope)
     IN  IF db = "null"
         THEN /\ ret' = Of(Rejected("batchUpdateMatrices", "NotInitialized"), matrixUpdates)
              /\ call' = NoCall
              /\ tx' = NoTx
         ELSE /\ tx' = OpenTx(scope, issued)
              /\ call' = [NoCall EXCEPT !.op = "batchUpdateMatrices", !.pc = "issued",
                             !.promise = IF issued = reqs THEN "pending" ELSE "rejected",
                             !.args = matrixUpdates,
                             !.totalOperations = Len(reqs)]
              /\ ret' = IF issued = reqs THEN NoRet
                        ELSE Of(Rejected("batchUpdateMatrices",
                                         ThrownBy(reqs[Len(issued) + 1], scope)),
                                matrixUpdates)
  /\ UNCHANGED <<painter, paints, db, opening, store, spatialIndex>>

\* the whole synchronous part of the call; db.transaction([]) throws an
\* InvalidAccessError
BatchUpdateMatrices(matrixUpdates) ==
  /\ CanCall
  /\ hist' = Counted
  /\ LET scope == BatchStoreNames(matrixUpdates)
         reqs == BatchRequests(matrixUpdates)
         issued == IssuedPrefix(reqs, scope)
     IN  IF db = "null"
         THEN /\ ret' = Of(Rejected("batchUpdateMatrices", "NotInitialized"), matrixUpdates)
              /\ call' = NoCall
              /\ tx' = NoTx
         ELSE IF scope = {}
         THEN /\ ret' = Of(Rejected("batchUpdateMatrices", "InvalidAccessError"),
                            matrixUpdates)
              /\ call' = NoCall
              /\ tx' = NoTx
         ELSE /\ tx' = OpenTx(scope, issued)
              /\ call' = [NoCall EXCEPT !.op = "batchUpdateMatrices", !.pc = "issued",
                             !.promise = IF issued = reqs THEN "pending" ELSE "rejected",
                             !.args = matrixUpdates,
                             !.totalOperations = Len(reqs)]
              /\ ret' = IF issued = reqs THEN NoRet
                        ELSE Of(Rejected("batchUpdateMatrices",
                                         ThrownBy(reqs[Len(issued) + 1], scope)),
                                matrixUpdates)
  /\ UNCHANGED <<painter, paints, db, opening, store, spatialIndex>>

(***************************************************************************)
(* The steps of the transaction in flight: one event per put request, in   *)
(* the order the puts were issued, then the commit.                        *)
(***************************************************************************)
\* the success event of the oldest request: the record is written inside the
\* transaction and the request's onsuccess handler runs
RequestSuccess ==
  /\ tx.state = "active" /\ tx.queue # <<>>
  /\ LET req == Head(tx.queue)
         completed == call.operationsCompleted + 1
         resolves == call.op = "save" \/ completed = call.totalOperations
     IN  /\ tx' = [tx EXCEPT !.queue = Tail(tx.queue),
                             !.work = StorePut(tx.work, req.storeName, req.entity)]
         /\ call' = [call EXCEPT !.operationsCompleted = completed,
                                 !.promise = IF resolves /\ call.promise = "pending"
                                             THEN "resolved" ELSE call.promise]
         /\ ret' = IF resolves /\ call.promise = "pending"
                   THEN Of(Resolved(call.op, Undefined), call.args) ELSE ret
  /\ UNCHANGED <<painter, paints, db, opening, store, spatialIndex, hist>>

\* the error event of the oldest request: request.onerror rejects, the event
\* bubbles to transaction.onerror, and the transaction aborts
RequestError ==
  /\ tx.state = "active" /\ tx.queue # <<>>
  /\ tx' = [NoTx EXCEPT !.state = "aborted", !.scope = tx.scope]
  /\ call' = NoCall
  /\ ret' = IF call.promise = "pending"
            THEN Of(Rejected(call.op, "RequestError"), call.args) ELSE ret
  /\ UNCHANGED <<painter, paints, db, opening, store, spatialIndex, hist>>

\* every request is done: the transaction commits what it wrote
Commit ==
  /\ tx.state = "active" /\ tx.queue = <<>>
  /\ store' = tx.work
  /\ tx' = [NoTx EXCEPT !.state = "committed", !.scope = tx.scope]
  /\ call' = NoCall
  /\ UNCHANGED <<painter, paints, db, opening, ret, spatialIndex, hist>>

\* the commit fails (quota, I/O): the transaction aborts and fires "abort",
\* for which the code registers no handler
CommitAbort ==
  /\ tx.state = "active" /\ tx.queue = <<>>
  /\ tx' = [NoTx EXCEPT !.state = "aborted", !.scope = tx.scope]
  /\ call' = NoCall
  /\ UNCHANGED <<painter, paints, db, opening, store, ret, spatialIndex, hist>>

(***************************************************************************)
(* get(key, storeName) and getAllByIndex(indexName, value, storeName).     *)
(***************************************************************************)
Get(key, storeName) ==
  /\ CanCall
  /\ hist' = Counted
  /\ ret' = Of(IF db = "null" THEN Rejected("get", "NotInitialized")
                 ELSE Resolved("get", StoreGet(store, storeName, key)),
                 <<key, storeName>>)
  /\ tx' = NoTx
  /\ UNCHANGED <<painter, paints, db, opening, store, call, spatialIndex>>

\* store.index(indexName) throws a NotFoundError when the store has no such index
GetAllByIndex(indexName, value, storeName) ==
  /\ CanCall
  /\ hist' = Counted
  /\ ret' = Of(IF db = "null" THEN Rejected("getAllByIndex", "NotInitialized")
                 ELSE IF indexName \notin Indexes(storeName)
                 THEN Rejected("getAllByIndex", "NotFoundError")
                 ELSE Resolved("getAllByIndex",
                               Arr(IndexGetAll(store, storeName, indexName, value))),
                 <<indexName, value, storeName>>)
  /\ tx' = NoTx
  /\ UNCHANGED <<painter, paints, db, opening, store, call, spatialIndex>>

(***************************************************************************)
(* getEntitiesInBounds and the spatial index.                              *)
(***************************************************************************)
EntityKinds == <<"cubes", "subcubes", "subcubeVertices">>

\* where each kind keeps its position: cube.value[0], subcube.center,
\* vertex.value[1]
PositionOf(kind, entity) ==
  CASE kind = "cubes" -> At(Field(entity, "value"), 0)
    [] kind = "subcubes" -> Field(entity, "center")
    [] OTHER -> At(Field(entity, "value"), 1)

isInBounds(position, bounds) ==
  \A i \in 0..2 : /\ JsLeq(At(bounds.min, i), At(position, i))
                  /\ JsLeq(At(position, i), At(bounds.max, i))

getEntitiesInBounds(stores, bounds, windowUID) ==
  LET all == [cubes |-> IndexGetAll(stores, "Cubes", "windowUID", windowUID),
              subcubes |-> IndexGetAll(stores, "Subcubes", "windowUID", windowUID),
              subcubeVertices |->
                IndexGetAll(stores, "SubcubeVertices", "windowUID", windowUID)]
  IN  [kind \in {"cubes", "subcubes", "subcubeVertices"} |->
         SelectSeq(all[kind], LAMBDA e : isInBounds(PositionOf(kind, e), bounds))]

\* Math.floor(a / b) and Math.ceil(a / b) for integers a and b > 0
FloorDiv(a, b) == a \div b
CeilDiv(a, b) == -((-a) \div b)

getBinCoords(position, binSize) ==
  <<FloorDiv(At(position, 0)[2], binSize),
    FloorDiv(At(position, 1)[2], binSize),
    FloorDiv(At(position, 2)[2], binSize)>>

\* `${binCoords[0]},${binCoords[1]},${binCoords[2]}`
getBinKey(binCoords) ==
  IntToChars(binCoords[1]) \o <<",">> \o IntToChars(binCoords[2]) \o <<",">>
    \o IntToChars(binCoords[3])

EmptyBin == [cubes |-> <<>>, subcubes |-> <<>>, subcubeVertices |-> <<>>]

\* one forEach of buildSpatialIndex: every entity of the list is pushed on
\* the list of its kind in the bin of its cell
RECURSIVE AssignToBins(_, _, _, _)
AssignToBins(bins, list, kind, binSize) ==
  IF list = <<>> THEN bins
  ELSE LET entity == Head(list)
           binKey == getBinKey(getBinCoords(PositionOf(kind, entity), binSize))
           bin == IF binKey \in DOMAIN bins THEN bins[binKey] ELSE EmptyBin
           pushed == [bin EXCEPT ![kind] = Append(bin[kind], entity)]
       IN  AssignToBins([k \in (DOMAIN bins) \cup {binKey} |->
                           IF k = binKey THEN pushed ELSE bins[k]],
                        Tail(list), kind, binSize)

AllSpace ==
  [min |-> Arr(<<NegInfinity, NegInfinity, NegInfinity>>),
   max |-> Arr(<<Infinity, Infinity, Infinity>>)]

\* the index object buildSpatialIndex returns for the stores it read
buildSpatialIndex(stores, windowUID, binSize) ==
  LET entities == getEntitiesInBounds(stores, AllSpace, windowUID)
      b1 == AssignToBins(<<>>, entities.cubes, "cubes", binSize)
      b2 == AssignToBins(b1, entities.subcubes, "subcubes", binSize)
      b3 == AssignToBins(b2, entities.subcubeVertices, "subcubeVertices", binSize)
  IN  [built |-> TRUE, windowUID |-> windowUID, binSize |-> binSize, bins |-> b3]

\* Math.sqrt(dx^2 + dy^2 + dz^2) <= radius, on integers: the square root is
\* monotonic and exact on squares, so the test is the one on the squares
InRadius(position, pos, radius) ==
  LET d(i) == At(position, i)[2] - At(pos, i)[2]
  IN  radius >= 0 /\ d(0) * d(0) + d(1) * d(1) + d(2) * d(2) <= radius * radius

\* Math.floor for Math.ceil
RadiusInBinsFloor(radius, binSize) == FloorDiv(radius, binSize)

\* how many cells on each side of the centre cell the query visits
RadiusInBins(radius, binSize) == CeilDiv(radius, binSize)

\* the cells the three nested loops visit, in the order they visit them
VisitedCells(centerBin, radiusInBins) ==
  LET side == 2 * radiusInBins + 1
  IN  IF side <= 0 THEN <<>>
      ELSE [i \in 1..(side * side * side) |->
              <<centerBin[1] - radiusInBins + ((i - 1) \div (side * side)),
                centerBin[2] - radiusInBins + (((i - 1) \div side) % side),
                centerBin[3] - radiusInBins + ((i - 1) % side)>>]

\* the visited cells that have a bin (if (bin) { ... })
BinsVisited(index, cells) ==
  SelectSeq(cells, LAMBDA c : getBinKey(c) \in DOMAIN index.bins)

\* what the loops push on results[kind], bin after bin
RECURSIVE Gather(_, _, _, _, _)
Gather(index, cells, kind, position, radius) ==
  IF cells = <<>> THEN <<>>
  ELSE SelectSeq(index.bins[getBinKey(Head(cells))][kind],
                 LAMBDA e : InRadius(position, PositionOf(kind, e), radius))
         \o Gather(index, Tail(cells), kind, position, radius)

queryNearPosition(index, position, radius) ==
  LET cells == VisitedCells(getBinCoords(position, index.binSize),
                            RadiusInBins(radius, index.binSize))
  IN  [kind \in {"cubes", "subcubes", "subcubeVertices"} |->
         Gather(index, BinsVisited(index, cells), kind, position, radius)]

\* buildSpatialIndex(windowUID, binSize): the three index reads see the
\* stores as every earlier transaction left them
BuildSpatialIndex(windowUID, binSize) ==
  /\ CanCall
  /\ IF db = "null"
     THEN /\ ret' = Of(Rejected("buildSpatialIndex", "NotInitialized"),
                         <<windowUID, binSize>>)
          /\ hist' = Counted
          /\ UNCHANGED spatialIndex
     ELSE /\ ret' = Of(Resolved("buildSpatialIndex", Undefined), <<windowUID, binSize>>)
          /\ hist' = [Counted EXCEPT !.snap = store]
          /\ spatialIndex' = buildSpatialIndex(store, windowUID, binSize)
  /\ tx' = NoTx
  /\ UNCHANGED <<painter, paints, db, opening, store, call>>

\* a query that rebuilds the index from the object stores before it answers
QueryNearPositionRefreshing(position, radius) ==
  /\ spatialIndex.built
  /\ Idle
  /\ spatialIndex' = buildSpatialIndex(store, spatialIndex.windowUID, spatialIndex.binSize)
  /\ LET results == queryNearPosition(spatialIndex', position, radius)
     IN  ret' = Of(Resolved("queryNearPosition",
                              Obj([kind \in DOMAIN results |-> Arr(results[kind])])),
                     <<position, radius>>)
  /\ UNCHANGED <<painter, paints, db, opening, store, tx, call, hist>>

\* spatialIndex.queryNearPosition(position, radius) on the index built last
QueryNearPosition(position, radius) ==
  /\ spatialIndex.built
  /\ Idle
  /\ LET results == queryNearPosition(spatialIndex, position, radius)
     IN  ret' = Of(Resolved("queryNearPosition",
                              Obj([kind \in DOMAIN results |-> Arr(results[kind])])),
                     <<position, radius>>)
  /\ UNCHANGED <<painter, paints, db, opening, store, tx, call, spatialIndex, hist>>

(***************************************************************************)
(* The inputs the calls are made with.                                     *)
(***************************************************************************)
\* [x, y, z]
P(x, y, z) == Arr(<<Num(x), Num(y), Num(z)>>)
\* a string the model never takes apart (a strategy identifier)
Name(s) == Str(<<s>>)

sAA == Str(<<"A", "A">>)
sAB == Str(<<"A", "B">>)
sAAv0 == Str(<<"A", "A", "v", "0">>)
s1vrtx0 == Str(<<"1", "v", "r", "t", "x", "0">>)
s11 == Str(<<"1", "1">>)
s12 == Str(<<"1", "2">>)
s111 == Str(<<"1", "1", "1">>)

\* the sample entities of main()
vertex1 == CubeVertex(s1vrtx0, Num(1), P(-75, -75, -75), P(255, 0, 0), Name("blendBackground"))
cube1 == Cube(Num(1), Num(1), P(0, 0, 0), Arr(<<sAA>>), <<vertex1>>, Name("blendBackground"))
subcubeVertex1 ==
  SubcubeVertex(sAAv0, Num(1), Num(1), sAA, s11,
                Arr(<<P(0, 255, 0), P(0, 0, 0), Num(2), Name("weightedSphere")>>), Num(1))
vertexArray1 == Arr(<<Arr(<<sAAv0, Name("BlendCornerByProximity")>>)>>)
subcube1 ==
  Subcube(sAA, Num(1), P(0, 0, 0), Num(0), vertexArray1, Num(1), s11,
          Name("BlendCornerByProximity"))

\* vertex.value[2] = weight, after construction
SetWeight(vertex, weight) ==
  SetField(vertex, "value",
           Arr([i \in 1..4 |-> IF i = 3 THEN weight ELSE Field(vertex, "value")[2][i]]))

\* a vertex object that carries the 4-tuple under valueArray
TupleVertex(color, weight, originID) ==
  Obj([id |-> sAAv0, vertexID |-> s1vrtx0, windowUID |-> Num(1), cubeId |-> Num(1),
       originID |-> originID,
       valueArray |-> Arr(<<color, P(0, 0, 0), weight, Name("weightedSphere")>>)])

Matrix(id, binData) ==
  Obj([id |-> id, windowUID |-> Num(1), redLayer |-> Arr(<<Num(0)>>),
       greenLayer |-> Arr(<<Num(0)>>), blueLayer |-> Arr(<<Num(255)>>),
       binData |-> binData])
goodMatrix == Matrix(Num(1), Arr(<<P(0, 0, 0)>>))
\* a matrix object with no binData property
noBinData == Obj([id |-> Num(2), windowUID |-> Num(1), redLayer |-> Arr(<<Num(0)>>),
                  greenLayer |-> Arr(<<Num(0)>>), blueLayer |-> Arr(<<Num(255)>>)])
\* an object with no key property
noKey == Obj([windowUID |-> Num(1), center |-> P(0, 0, 0), vertexArray |-> vertexArray1,
              cubeId |-> Num(1), originID |-> s11, value |-> Arr(<<P(0, 0, 0)>>)])

\* subcubes of every windowUID/cubeId pair, each with every originID
SubcubeInputs ==
  {Subcube(sAA, w, P(0, 0, 0), Num(0), vertexArray1, c, o, Name("BlendCornerByProximity")) :
     w \in {Num(1), Num(11)}, c \in {Num(1), Num(11)}, o \in {s11, s111, Num(11)}}
    \cup {Subcube(sAA, Num(1), Arr(<<Num(0), Num(0)>>), Num(0), vertexArray1, Num(1), o,
                  Name("BlendCornerByProximity")) : o \in {s11, s12}}

VertexInputs ==
  {TupleVertex(P(0, 255, 0), weight, s11) : weight \in {Num(-3), Num(2), NaN}}
    \cup {TupleVertex(color, Num(2), s12) : color \in {P(0, 255, 0), P(0, 256, 0)}}
    \cup {TupleVertex(P(0, 256, 0), Num(2), s11)}

SaveInputs ==
  {Request("Cubes", e) : e \in {cube1, noKey}}
    \cup {Request("CubeVertices", e) : e \in {vertex1} \cup VertexInputs}
    \cup {Request("Subcubes", e) : e \in SubcubeInputs}
    \cup {Request("SubcubeVertices", e) : e \in {subcubeVertex1} \cup VertexInputs}
    \cup {Request("CubeMatrix", e) : e \in {goodMatrix, noBinData}}

Bundle(cube, subcubes, subcubeVertices, cubeVertices) ==
  Obj([cube |-> cube, subcubes |-> Arr(subcubes), subcubeVertices |-> Arr(subcubeVertices),
       cubeVertices |-> Arr(cubeVertices)])

badOrigin == SetField(subcube1, "originID", s12)
badColor == TupleVertex(P(0, 256, 0), Num(2), s11)

HierarchyInputs ==
  { Bundle(cube1, <<subcube1>>, <<subcubeVertex1>>, <<vertex1>>),
    Obj([cube |-> cube1]),
    Bundle(cube1, <<badOrigin>>, <<>>, <<>>),
    Bundle(cube1, <<subcube1>>, <<>>, <<badColor>>),
    Bundle(cube1, <<subcube1, noKey>>, <<>>, <<>>),
    Bundle(cube1, <<>>, <<SetWeight(subcubeVertex1, Num(-3))>>, <<>>) }

Update(type, matrix) == [type |-> type, matrix |-> matrix]

BatchInputs ==
  { <<Update("CubeMatrix", goodMatrix), Update("BackgroundMatrix", goodMatrix)>>,
    <<Update("CubeMatrix", goodMatrix), Update("BackgroundMatrix", goodMatrix),
      Update("CubeMatrix", noBinData)>>,
    <<Update("CubeMatrix", goodMatrix), Update("Matrix", goodMatrix)>>,
    <<>> }

GetInputs ==
  { <<Num(1), "Cubes">>, <<sAA, "Subcubes">>, <<sAAv0, "SubcubeVertices">>,
    <<s1vrtx0, "CubeVertices">>, <<Num(1), "CubeMatrix">>, <<Num(2), "CubeMatrix">> }

IndexInputs ==
  { <<"windowUID", Num(1), "Cubes">>, <<"windowUID", Num(11), "Subcubes">>,
    <<"cubeId", Num(1), "Cubes">> }

\* binSize = 50 when the caller gives none
DefaultBinSize == 50

(***************************************************************************)
(* The Painter of painter.js and the blending functions of utils.js.       *)
(* An expression that throws evaluates to <<"throw", error>>, which every  *)
(* later operation passes on.                                              *)
(***************************************************************************)
Throw(e) == <<"throw", e>>
IsThrow(v) == v[1] = "throw"

\* the values that count as false in a || b
Truthy(v) == v \notin {Undefined, NaN, Num(0), Str(<<>>)}
\* a || b
Or(a, b) == IF IsThrow(a) \/ Truthy(a) THEN a ELSE b

\* v.f : a TypeError on undefined, undefined when v has no such property
Prop(v, f) ==
  IF IsThrow(v) THEN v ELSE IF v = Undefined THEN Throw("TypeError") ELSE Field(v, f)

\* v[i] : a TypeError on undefined, the i-th character of a string
Index(v, i) ==
  IF IsThrow(v) THEN v
  ELSE IF v = Undefined THEN Throw("TypeError")
  ELSE IF IsString(v)
  THEN (IF i + 1 \in 1..Len(v[2]) THEN Str(<<v[2][i + 1]>>) ELSE Undefined)
  ELSE At(v, i)

\* the i-th variable of const [x, y, z] = v : v must be iterable
Destructured(v, i) ==
  IF IsThrow(v) THEN v
  ELSE IF IsArray(v) \/ IsString(v) THEN Index(v, i)
  ELSE Throw("TypeError")

\* a + b : concatenation as soon as an operand is a string
JsAdd(a, b) ==
  IF IsThrow(a) THEN a ELSE IF IsThrow(b) THEN b
  ELSE IF IsString(a) \/ IsString(b) THEN Str(ToChars(a) \o ToChars(b))
  ELSE IF IsNumber(a) /\ IsNumber(b) THEN Num(a[2] + b[2])
  ELSE NaN

\* a - b
JsSub(a, b) ==
  IF IsThrow(a) THEN a ELSE IF IsThrow(b) THEN b
  ELSE IF IsNumber(ToNumber(a)) /\ IsNumber(ToNumber(b))
  THEN Num(ToNumber(a)[2] - ToNumber(b)[2])
  ELSE NaN

\* a * b
JsMul(a, b) ==
  IF IsThrow(a) THEN a ELSE IF IsThrow(b) THEN b
  ELSE IF IsNumber(ToNumber(a)) /\ IsNumber(ToNumber(b))
  THEN Num(ToNumber(a)[2] * ToNumber(b)[2])
  ELSE NaN

\* Math.min(a, b) and Math.max(a, b): NaN as soon as an operand is NaN
MathMin(a, b) ==
  IF IsThrow(a) THEN a ELSE IF IsThrow(b) THEN b
  ELSE IF ToNumber(a) = NaN \/ ToNumber(b) = NaN THEN NaN
  ELSE IF JsLeq(a, b) THEN ToNumber(a) ELSE ToNumber(b)

MathMax(a, b) ==
  IF IsThrow(a) THEN a ELSE IF IsThrow(b) THEN b
  ELSE IF ToNumber(a) = NaN \/ ToNumber(b) = NaN THEN NaN
  ELSE IF JsLeq(a, b) THEN ToNumber(b) ELSE ToNumber(a)

\* Math.floor(x / binSize) for binSize > 0
MathFloorOfQuotient(x, binSize) ==
  IF IsThrow(x) THEN x
  ELSE IF IsNumber(ToNumber(x)) THEN Num(FloorDiv(ToNumber(x)[2], binSize))
  ELSE ToNumber(x)

\* an array literal: it throws when one of its elements does
ArrayOf(elements) ==
  IF \E i \in 1..Len(elements) : IsThrow(elements[i])
  THEN elements[CHOOSE i \in 1..Len(elements) :
                  /\ IsThrow(elements[i])
                  /\ \A j \in 1..(i - 1) : ~IsThrow(elements[j])]
  ELSE Arr(elements)

\* the additive blend without the clamp
blendBackgroundUnclamped(color1, color2, ambient) ==
  ArrayOf([i \in 1..3 |->
             JsAdd(JsAdd(Index(color1, i - 1), Index(color2, i - 1)), Index(ambient, i - 1))])

\* a blend that forgets the colour the bin had
blendBackgroundOverwriting(color1, color2, ambient) ==
  ArrayOf([i \in 1..3 |->
             MathMin(Num(255), JsAdd(Index(color2, i - 1), Index(ambient, i - 1)))])

\* utils.js: additive blend, each channel clamped to 255
blendBackground(color1, color2, ambient) ==
  ArrayOf([i \in 1..3 |->
             MathMin(Num(255), JsAdd(JsAdd(Index(color1, i - 1), Index(color2, i - 1)),
                                     Index(ambient, i - 1)))])

\* utils.js: linear interpolation by the weight, plus the ambient value
BlendVrtxByWeight(color1, color2, weight, ambient) ==
  ArrayOf([i \in 1..3 |->
             JsAdd(JsAdd(JsMul(Index(color1, i - 1), JsSub(Num(1), weight)),
                         JsMul(Index(color2, i - 1), weight)),
                   Index(ambient, i - 1))])

\* utils.js: reads distanceToSubject, which nothing declares
BlendCornerByProximity(color1, color2, weight, ambient) == Throw("ReferenceError")

\* the properties of blendingFunctions: its own three, and those every object
\* literal inherits from Object.prototype (the ones the model knows)
OwnStrategies == {"BlendCornerByProximity", "BlendVrtxByWeight", "blendBackground"}
InheritedProperties == {"constructor", "hasOwnProperty", "__proto__"}

\* blendingFunctions[proximity] || blendingFunctions.blendBackground
ResolvedStrategy(proximity) ==
  LET key == ToChars(proximity)
  IN  IF Len(key) = 1 /\ key[1] \in OwnStrategies \cup InheritedProperties
      THEN key[1] ELSE "blendBackground"

\* Painter.blend(color1, color2, { weight, proximity })
blend(ambientValue, color1, color2, weight, proximity) ==
  LET blendFunc == ResolvedStrategy(proximity)
  IN  CASE blendFunc = "BlendCornerByProximity" ->
             BlendCornerByProximity(color1, color2, weight, ambientValue)
        [] blendFunc = "BlendVrtxByWeight" ->
             BlendVrtxByWeight(color1, color2, weight, ambientValue)
        [] blendFunc = "blendBackground" -> blendBackground(color1, color2, ambientValue)
        \* Object(color1, ...) returns its first argument
        [] blendFunc = "constructor" -> color1
        \* hasOwnProperty called with no this; Object.prototype is no function
        [] OTHER -> Throw("TypeError")

\* new Painter(binSize, ambientValue): this.bins is one Map, kept for good
Painter(binSize, ambientValue) ==
  [binSize |-> binSize, ambientValue |-> ambientValue, bins |-> <<>>]

\* the Map this.bins: its entries in insertion order
Has(bins, binKey) == \E i \in 1..Len(bins) : bins[i].key = binKey
GetBin(bins, binKey) == bins[CHOOSE i \in 1..Len(bins) : bins[i].key = binKey]
SetBin(bins, binKey, bin) ==
  IF Has(bins, binKey)
  THEN [i \in 1..Len(bins) |-> IF bins[i].key = binKey THEN bin ELSE bins[i]]
  ELSE Append(bins, bin)

\* createBins without the clear
clearNothing(bins) == bins
\* this.bins.clear()
clear(bins) == <<>>

\* item.value[2] || item.vertexArray.map(v => ({ valueArray: v })), as the
\* for-of loop iterates it
VerticesOf(item) ==
  LET nested == Index(Prop(item, "value"), 2)
      vertexArray == Prop(item, "vertexArray")
  IN  IF IsThrow(nested) THEN nested
      ELSE IF Truthy(nested)
      THEN (IF IsArray(nested) THEN nested
            ELSE IF IsString(nested)
            THEN Arr([i \in 1..Len(nested[2]) |-> Str(<<nested[2][i]>>)])
            ELSE Throw("TypeError"))
      ELSE IF IsArray(vertexArray)
      THEN Arr([i \in 1..Len(vertexArray[2]) |-> Obj([valueArray |-> vertexArray[2][i]])])
      ELSE Throw("TypeError")

\* vertex.valueArray[i] || vertex.value[i]
Carried(vertex, i) ==
  Or(Index(Prop(vertex, "valueArray"), i), Index(Prop(vertex, "value"), i))

\* the inner loop of findFarthestDepth
RECURSIVE FarthestOfVertices(_, _)
FarthestOfVertices(vertices, maxZ) ==
  IF vertices = <<>> THEN maxZ
  ELSE LET z == Index(Carried(Head(vertices), 1), 2)
       IN  IF IsThrow(z) THEN z
           ELSE FarthestOfVertices(Tail(vertices), MathMax(maxZ, z))

\* the outer loop of findFarthestDepth
RECURSIVE FarthestOfItems(_, _)
FarthestOfItems(data, maxZ) ==
  IF data = <<>> THEN maxZ
  ELSE LET vertices == VerticesOf(Head(data))
       IN  IF IsThrow(vertices) THEN vertices
           ELSE LET m == FarthestOfVertices(vertices[2], maxZ)
                IN  IF IsThrow(m) THEN m ELSE FarthestOfItems(Tail(data), m)

findFarthestDepth(data) == FarthestOfItems(data, NegInfinity)

\* a key that keeps the depth bin whatever the flag
BinKeyOfWithDepth(position, binSize, isBackground) ==
  ToChars(MathFloorOfQuotient(Destructured(position, 0), binSize)) \o <<",">>
    \o ToChars(MathFloorOfQuotient(Destructured(position, 1), binSize)) \o <<",">>
    \o ToChars(MathFloorOfQuotient(Destructured(position, 2), binSize))

\* `${row},${col},${depthBin}` or `${row},${col}`
BinKeyOf(position, binSize, isBackground) ==
  LET row == MathFloorOfQuotient(Destructured(position, 0), binSize)
      col == MathFloorOfQuotient(Destructured(position, 1), binSize)
      depthBin == MathFloorOfQuotient(Destructured(position, 2), binSize)
  IN  IF isBackground
      THEN ToChars(row) \o <<",">> \o ToChars(col) \o <<",">> \o ToChars(depthBin)
      ELSE ToChars(row) \o <<",">> \o ToChars(col)

\* the outcome of a loop body: the entries of the Map, and the error thrown
Done(bins) == [bins |-> bins, error |-> "none"]
Thrown(bins, thrown) == [bins |-> bins, error |-> thrown[2]]

\* a bin that takes the larger depth whatever the flag
BlendIntoDeepest(bins, bin, color, z, isBackground) ==
  IF IsThrow(color) THEN Thrown(bins, color)
  ELSE Done(SetBin(bins, bin.key,
                   [bin EXCEPT !.color = color, !.active = TRUE,
                               !.depth = MathMax(bin.depth, z)]))

\* lines 26-32: the bin takes the colour the strategy returns, becomes
\* active, and, for a background, takes the larger depth
BlendInto(bins, bin, color, z, isBackground) ==
  IF IsThrow(color) THEN Thrown(bins, color)
  ELSE Done(SetBin(bins, bin.key,
                   [bin EXCEPT !.color = color, !.active = TRUE,
                               !.depth = IF isBackground THEN MathMax(bin.depth, z)
                                         ELSE bin.depth]))

\* a blend that starts over from the ambient value at every vertex
BlendArgumentsFromAmbient(p, bin, blendLogic, color2, weight) ==
  IF IsThrow(blendLogic) THEN blendLogic
  ELSE IF IsThrow(color2) THEN color2
  ELSE IF IsThrow(weight) THEN weight
  ELSE blend(p.ambientValue, p.ambientValue, color2, weight, blendLogic)

\* lines 25-30: the arguments of this.blend, evaluated in order
BlendArguments(p, bin, blendLogic, color2, weight) ==
  IF IsThrow(blendLogic) THEN blendLogic
  ELSE IF IsThrow(color2) THEN color2
  ELSE IF IsThrow(weight) THEN weight
  ELSE blend(p.ambientValue, bin.color, color2, weight, blendLogic)

\* a filter that lets only the vertices nearer than the farthest one through
BlendVertexNearer(p, bins, vertex, z, binKey, isBackground, maxDepth) ==
  IF ~JsLess(z, maxDepth) THEN Done(bins)
  ELSE BlendInto(bins, GetBin(bins, binKey),
                 BlendArguments(p, GetBin(bins, binKey),
                                Or(Or(Index(Prop(vertex, "valueArray"), 3), Index(vertex, 1)),
                                   Name("blendBackground")),
                                Carried(vertex, 0), Carried(vertex, 2)),
                 z, isBackground)

\* lines 24-33: if (z <= maxDepth + 1) { ... }, on the Map that has the bin
BlendVertex(p, bins, vertex, z, binKey, isBackground, maxDepth) ==
  IF ~JsLeq(z, JsAdd(maxDepth, Num(1))) THEN Done(bins)
  ELSE BlendInto(bins, GetBin(bins, binKey),
                 BlendArguments(p, GetBin(bins, binKey),
                                Or(Or(Index(Prop(vertex, "valueArray"), 3), Index(vertex, 1)),
                                   Name("blendBackground")),
                                Carried(vertex, 0), Carried(vertex, 2)),
                 z, isBackground)

\* lines 21-23: if (!this.bins.has(binKey)) this.bins.set(binKey, {...})
PlaceVertex(p, bins, vertex, z, binKey, isBackground, maxDepth) ==
  BlendVertex(p,
              IF Has(bins, binKey) THEN bins
              ELSE SetBin(bins, binKey,
                          [key |-> binKey, color |-> p.ambientValue,
                           active |-> FALSE, depth |-> z]),
              vertex, z, binKey, isBackground, maxDepth)

\* lines 16-20: the position is destructured and the key is computed
LocateVertex(p, bins, vertex, position, isBackground, maxDepth) ==
  IF IsThrow(position) THEN Thrown(bins, position)
  ELSE IF IsThrow(Destructured(position, 2)) THEN Thrown(bins, Destructured(position, 2))
  ELSE PlaceVertex(p, bins, vertex, Destructured(position, 2),
                   BinKeyOf(position, p.binSize, isBackground), isBackground, maxDepth)

\* the body of the inner loop of createBins, for one vertex
ProcessVertex(p, bins, vertex, isBackground, maxDepth) ==
  LocateVertex(p, bins, vertex, Carried(vertex, 1), isBackground, maxDepth)

RECURSIVE ProcessVertices(_, _, _, _, _)
\* the inner loop goes on unless the body threw
NextVertex(p, done, vertices, isBackground, maxDepth) ==
  IF done.error # "none" THEN done
  ELSE ProcessVertices(p, done.bins, vertices, isBackground, maxDepth)

\* the inner loop of createBins
ProcessVertices(p, bins, vertices, isBackground, maxDepth) ==
  IF vertices = <<>> THEN Done(bins)
  ELSE NextVertex(p, ProcessVertex(p, bins, Head(vertices), isBackground, maxDepth),
                  Tail(vertices), isBackground, maxDepth)

RECURSIVE ProcessItems(_, _, _, _, _)
\* the outer loop goes on unless the inner loop threw
NextItem(p, done, data, isBackground, maxDepth) ==
  IF done.error # "none" THEN done
  ELSE ProcessItems(p, done.bins, data, isBackground, maxDepth)

\* the vertices of an item are iterated, unless taking them throws
ProcessItem(p, bins, vertices, data, isBackground, maxDepth) ==
  IF IsThrow(vertices) THEN Thrown(bins, vertices)
  ELSE NextItem(p, ProcessVertices(p, bins, vertices[2], isBackground, maxDepth),
                data, isBackground, maxDepth)

\* the outer loop of createBins
ProcessItems(p, bins, data, isBackground, maxDepth) ==
  IF data = <<>> THEN Done(bins)
  ELSE ProcessItem(p, bins, VerticesOf(Head(data)), Tail(data), isBackground, maxDepth)

\* lines 13-36: the Map is cleared and the loops run, unless findFarthestDepth
\* threw
PaintFrom(p, data, isBackground, maxDepth) ==
  IF IsThrow(maxDepth) THEN Thrown(p.bins, maxDepth)
  ELSE ProcessItems(p, clear(p.bins), data, isBackground, maxDepth)

\* Painter.createBins(data, isBackground): the entries of this.bins when it
\* returns or throws, and the error it throws
createBins(p, data, isBackground) ==
  PaintFrom(p, data, isBackground, findFarthestDepth(data))

\* new Painter(): binSize = 10, ambientValue = [10, 10, 10]
DefaultPainterBinSize == 10
DefaultAmbientValue == Arr(<<Num(10), Num(10), Num(10)>>)

\* what createBins hands back: the Map this.bins itself
MapOf(bins) == <<"map", bins>>
\* the entries that the Map handed back by a createBins call holds now: every
\* call returns the one Map of the Painter
MapNow(outcome) == MapOf(painter.bins)

\* the calls made, the outcome of an earlier call the caller kept, and whether
\* a call with other arguments was made since
NoPaints == [n |-> 0, kept |-> NoRet, mixed |-> FALSE]

\* painter.createBins(data, isBackground). The caller may keep the Map of the
\* call before this one, or the one it kept before.
CreateBins(data, isBackground) ==
  /\ Idle
  /\ paints.n < MaxPaints
  /\ \E done \in {createBins(painter, data, isBackground)} :
       /\ painter' = [painter EXCEPT !.bins = done.bins]
       /\ ret' = Of(IF done.error = "none"
                      THEN Resolved("createBins", MapOf(done.bins))
                      ELSE Rejected("createBins", done.error),
                      <<data, isBackground>>)
  /\ \/ paints' = [n |-> paints.n + 1, kept |-> paints.kept,
                    mixed |-> /\ paints.kept.op = "createBins"
                              /\ paints.mixed \/ ret.args # paints.kept.args]
     \/ /\ ret.op = "createBins"
        /\ paints' = [n |-> paints.n + 1, kept |-> ret, mixed |-> FALSE]
  /\ UNCHANGED <<db, opening, store, tx, call, spatialIndex, hist>>

\* painter.blend(color1, color2, { weight, proximity })
Blend(color1, color2, weight, proximity) ==
  /\ Idle
  /\ \E color \in {blend(painter.ambientValue, color1, color2, weight, proximity)} :
       ret' = Of(IF IsThrow(color) THEN Rejected("blend", color[2])
                   ELSE Resolved("blend", color),
                   <<color1, color2, weight, proximity>>)
  /\ UNCHANGED <<db, opening, store, tx, call, spatialIndex, hist, painter, paints>>

(***************************************************************************)
(* The store: every call with every input, and the events of IndexedDB.    *)
(***************************************************************************)
\* new CubeStorage()
NewStorage ==
  /\ db = "null"
  /\ opening = FALSE
  /\ store = EmptyStores
  /\ tx = NoTx
  /\ call = NoCall
  /\ ret = NoRet
  /\ spatialIndex = NoIndex
  /\ hist = NoHist

Init ==
  /\ NewStorage
  /\ painter = Painter(DefaultPainterBinSize, DefaultAmbientValue)
  /\ paints = NoPaints

Events ==
  \/ InitCall
  \/ InitSuccess
  \/ InitError
  \/ Close
  \/ SaveContinue
  \/ RequestSuccess
  \/ RequestError
  \/ Commit
  \/ CommitAbort

Next ==
  \/ Events
  \/ \E r \in SaveInputs : SaveCall(r.entity, r.storeName)
  \/ \E cubeData \in HierarchyInputs : UpdateCubeHierarchy(cubeData)
  \/ \E matrixUpdates \in BatchInputs : BatchUpdateMatrices(matrixUpdates)
  \/ \E g \in GetInputs : Get(g[1], g[2])
  \/ \E g \in IndexInputs : GetAllByIndex(g[1], g[2], g[3])
  \/ BuildSpatialIndex(Num(1), DefaultBinSize)

Spec == Init /\ [][Next]_vars

\* the continuation of an await is run, and IndexedDB answers every request
\* it was given
Fairness ==
  /\ WF_vars(SaveContinue)
  /\ WF_vars(RequestSuccess \/ RequestError)

\* the saves made while the writes are followed to their outcome
LiveSaves ==
  {Request("Cubes", cube1), Request("Cubes", noKey), Request("Subcubes", subcube1),
   Request("Subcubes", badOrigin), Request("CubeVertices", vertex1),
   Request("CubeVertices", TupleVertex(P(0, 255, 0), Num(2), s11))}

\* the write calls, and the events of IndexedDB
LiveNext ==
  \/ Events
  \/ \E r \in LiveSaves : SaveCall(r.entity, r.storeName)
  \/ \E cubeData \in HierarchyInputs : UpdateCubeHierarchy(cubeData)
  \/ \E matrixUpdates \in BatchInputs : BatchUpdateMatrices(matrixUpdates)

SpecLive == Init /\ [][LiveNext]_vars /\ Fairness

(***************************************************************************)
(* The spatial index: hierarchies at several positions, in two windows,    *)
(* indexed with two bin sizes and queried around two points.               *)
(***************************************************************************)

SpatialInputs ==
  {Bundle(Cube(Num(1), Num(1), pc, Arr(<<sAA>>), <<vertex1>>, Name("blendBackground")),
          <<SetField(subcube1, "center", ps),
            Subcube(sAB, Num(2), P(0, 0, 0), Num(1), vertexArray1, Num(1), Str(<<"2", "1">>),
                    Name("BlendCornerByProximity"))>>,
          <<SetField(subcubeVertex1, "value",
                     Arr(<<P(0, 255, 0), pv, Num(2), Name("weightedSphere")>>))>>,
          <<>>) :
     pc \in {P(0, 0, 0), P(60, 60, 60)}, ps \in {P(30, 40, 0), P(-1, 0, 0)},
     pv \in {P(0, 0, 0), P(50, 0, 0)}}

\* single entities saved next to the hierarchies
SpatialSaves ==
  {Request("Cubes", Cube(Num(1), Num(1), P(59, 60, 61), Arr(<<sAA>>), <<vertex1>>,
                         Name("blendBackground"))),
   Request("Subcubes", SetField(subcube1, "center", P(0, 0, 1)))}

BinSizes == {DefaultBinSize, 60}
QueryPoints == {P(0, 0, 0), P(59, 60, 61)}
Radii == {-1, 0, 1, 50}

SpatialNext ==
  \/ InitCall
  \/ InitSuccess
  \/ RequestSuccess
  \/ RequestError
  \/ Commit
  \/ CommitAbort
  \/ \E cubeData \in SpatialInputs : UpdateCubeHierarchy(cubeData)
  \/ \E r \in SpatialSaves : SaveCall(r.entity, r.storeName)
  \/ SaveContinue
  \/ \E w \in {Num(1), Num(2)}, binSize \in BinSizes : BuildSpatialIndex(w, binSize)
  \/ \E position \in QueryPoints, radius \in Radii : QueryNearPosition(position, radius)

SpecSpatial == Init /\ [][SpatialNext]_vars

(***************************************************************************)
(* The painter: createBins on lists of entities, several calls in a row,   *)
(* and blend on single colours.                                            *)
(***************************************************************************)
\* a vertex object that carries [color, position, weight, strategy identifier]
PaintVertex(color, position, weight, blendingLogicId) ==
  Obj([valueArray |-> Arr(<<color, position, weight, Name(blendingLogicId)>>)])

\* an entity whose value[2] holds its vertex objects
Item(vertices) == Obj([value |-> Arr(<<P(0, 0, 0), Arr(<<>>), Arr(vertices)>>)])
\* an entity whose vertices are 4-tuples under vertexArray
TupleItem(tuples) == Obj([value |-> Arr(<<P(0, 0, 0), Arr(<<>>)>>), vertexArray |-> Arr(tuples)])

red == PaintVertex(P(100, 0, 0), P(0, 0, 0), Num(1), "BlendVrtxByWeight")
green == PaintVertex(P(0, 50, 0), P(1, 1, 5), Num(2), "BlendVrtxByWeight")
bright == PaintVertex(P(250, 250, 10), P(3, 4, 2), Num(1), "blendBackground")
far == PaintVertex(P(1, 2, 3), P(15, 0, 7), Num(1), "blendBackground")
near == PaintVertex(P(250, 0, 7), P(0, 0, 0), Num(1), "blendBackground")

PaintInputs ==
  { \* painter.createBins([cube, subcube]) of main, and the subcube alone
    <<cube1, subcube1>>, <<subcube1>>,
    \* two weighted vertices of one bin, in both orders
    <<Item(<<red, green>>)>>, <<Item(<<green>>), Item(<<red>>)>>,
    \* additive vertices in two bins
    <<Item(<<bright, far>>), Item(<<bright>>)>>,
    \* an identifier the registry has no strategy for, the same vertex with
    \* blendBackground, and with an identifier every object inherits
    <<Item(<<PaintVertex(P(250, 0, 7), P(0, 0, 0), Num(1), "weightedSphere")>>)>>,
    <<Item(<<PaintVertex(P(250, 0, 7), P(0, 0, 0), Num(1), "blendBackground")>>)>>,
    <<Item(<<PaintVertex(P(250, 0, 7), P(0, 0, 0), Num(1), "constructor")>>)>>,
    \* weight 0
    <<Item(<<red, PaintVertex(P(0, 50, 0), P(1, 1, 5), Num(0), "BlendVrtxByWeight")>>)>>,
    \* the 4-tuples of a vertexArray
    <<TupleItem(<<Field(far, "valueArray"), Field(red, "valueArray")>>)>>,
    \* a vertex of BlendCornerByProximity after one that blends
    <<Item(<<far, PaintVertex(P(1, 2, 3), P(0, 0, 0), Num(1), "BlendCornerByProximity")>>)>>,
    \* two additive vertices of one bin, in both orders
    <<Item(<<bright, near>>)>>, <<Item(<<near>>), Item(<<bright>>)>>,
    \* a vertex whose z is NaN after one whose z is a number
    <<Item(<<bright, PaintVertex(P(1, 2, 3), Arr(<<Num(15), Num(0), NaN>>), Num(1),
                                 "blendBackground")>>)>> }

\* the lists painted as background too
BackgroundInputs ==
  { <<Item(<<red, green>>)>>, <<Item(<<bright, far>>), Item(<<bright>>)>> }

PaintCalls ==
  {<<data, FALSE>> : data \in PaintInputs} \cup {<<data, TRUE>> : data \in BackgroundInputs}

BlendColors == {P(10, 10, 10), P(250, 250, 10), P(0, 245, 255)}
BlendWeights == {Num(0), Num(1), Num(-2), Undefined}
BlendIdentifiers ==
  {Name("blendBackground"), Name("BlendVrtxByWeight"), Name("BlendCornerByProximity"),
   Name("weightedSphere"), Name("constructor"), Name("__proto__"), Undefined}

\* new Painter() and new Painter(5, [0, 0, 0])
PainterInit ==
  /\ NewStorage
  /\ painter \in {Painter(DefaultPainterBinSize, DefaultAmbientValue),
                  Painter(5, Arr(<<Num(0), Num(0), Num(0)>>))}
  /\ paints = NoPaints

PainterNext ==
  \E c \in PaintCalls : CreateBins(c[1], c[2])

SpecPainter == PainterInit /\ [][PainterNext]_vars

BlendNext ==
  \E color1 \in BlendColors, color2 \in BlendColors, weight \in BlendWeights,
     proximity \in BlendIdentifiers : Blend(color1, color2, weight, proximity)

SpecBlend == PainterInit /\ [][BlendNext]_vars

(***************************************************************************)
(* Validation: vertex entities of every shape, for both vertex kinds.      *)
(***************************************************************************)
\* an entity that carries the tuple under valueArray
Carrying(tuple) ==
  Obj([id |-> sAAv0, vertexID |-> s1vrtx0, windowUID |-> Num(1), cubeId |-> Num(1),
       originID |-> s11, valueArray |-> tuple])

ValidateColors ==
  {P(0, 255, 0), P(0, 256, 0), Arr(<<Num(0), Num(0)>>),
   Arr(<<Num(0), Name("a"), Num(0)>>), Arr(<<Num(0), NaN, Num(0)>>)}
ValidatePositions ==
  {P(0, 0, 0), Arr(<<Num(0), Name("a"), Num(0)>>), Arr(<<Num(0), Num(0)>>)}
ValidateWeights == {Num(0), NaN, Name("2")}
\* a string the strategy registry does not have, and a number
ValidateIdentifiers == {Name("weightedSphere"), Num(1)}

ValidateInputs ==
  {Carrying(Arr(<<color, position, weight, proximity>>)) :
     color \in ValidateColors, position \in ValidatePositions,
     weight \in ValidateWeights, proximity \in ValidateIdentifiers}
    \cup {Carrying(Arr(<<P(0, 255, 0), P(0, 0, 0), Num(2)>>)),
          Carrying(Arr(<<P(0, 255, 0), P(0, 0, 0), Num(2), Name("blendBackground"), Num(0)>>)),
          vertex1, subcubeVertex1}

ValidateNext ==
  \/ InitCall
  \/ InitSuccess
  \/ \E entity \in ValidateInputs, storeName \in {"CubeVertices", "SubcubeVertices"} :
       ValidateEntity(entity, storeName)

SpecValidate == Init /\ [][ValidateNext]_vars

(***************************************************************************)
(* The properties.                                                         *)
(***************************************************************************)
Elements(list) == {list[i] : i \in 1..Len(list)}
NoDuplicates(list) == \A i, j \in 1..Len(list) : list[i] = list[j] => i = j

WriteOps == {"save", "updateCubeHierarchy", "batchUpdateMatrices"}

\* get(key of the request's record, its store) returns the record
Visible(stores, req) ==
  StoreGet(stores, req.storeName, ExtractKey(req.entity, req.storeName)) = req.entity

\* originID is the concatenation of windowUID and cubeId
OriginMatches(entity) ==
  Field(entity, "originID")
    = Str(ToChars(Field(entity, "windowUID")) \o ToChars(Field(entity, "cubeId")))

\* the record passes the checks save makes for its store
PassesChecks(req) ==
  /\ ShapeError(req.entity, req.storeName) = "none"
  /\ req.storeName \in {"Subcubes", "SubcubeVertices"} => OriginMatches(req.entity)

\* C1: while updateCubeHierarchy runs, whenever the stores that get reads
\* change, they change to a state in which every entity of the bundle is
\* visible: a bundle is visible whole or not at all.
C1_AllOrNothing ==
  [][(call.op = "updateCubeHierarchy" /\ store' # store) =>
       \A i \in 1..Len(HierarchyRequests(call.args)) :
         Visible(store', HierarchyRequests(call.args)[i])]_vars

\* C2: a bundle one of whose entities fails the validation of its kind, or
\* the originID check, never resolves and never changes the stores.
C2_InvalidBundleRejected ==
  [][(call.op = "updateCubeHierarchy"
        /\ \E i \in 1..Len(HierarchyRequests(call.args)) :
             ~PassesChecks(HierarchyRequests(call.args)[i])) =>
       (store' = store /\ ret'.status # "resolved")]_vars

\* C3: while batchUpdateMatrices runs, the stores change only to a state in
\* which every matrix of the list is persisted, and they do not change at all
\* when an update of the list is invalid or names no matrix collection.
C3_BatchAllOrNothing ==
  [][(call.op = "batchUpdateMatrices" /\ store' # store) =>
       \A i \in 1..Len(call.args) :
         /\ call.args[i].type \in MatrixStores
         /\ ShapeError(call.args[i].matrix, call.args[i].type) = "none"
         /\ Visible(store', Request(call.args[i].type, call.args[i].matrix))]_vars

\* C4: a write operation has reported an outcome only when its transaction
\* is decided, and it has reported success only when the transaction
\* committed.
C4_ReportAfterDecision ==
  ret.op \in WriteOps =>
    /\ tx.state # "active"
    /\ ret.status = "resolved" => tx.state = "committed"

\* a save of a Subcube or SubcubeVertex whose originID is not the
\* concatenation of its windowUID and cubeId has reported
MismatchReported ==
  /\ ret.op = "save"
  /\ ret.args.storeName \in {"Subcubes", "SubcubeVertices"}
  /\ ~OriginMatches(ret.args.entity)

\* C5 as claimed: on an initialized store such a save always fails with the
\* consistency error.
C5_AlwaysConsistencyError ==
  MismatchReported =>
    ret.status = "rejected" /\ ret.error \in {"InvalidOriginID", "NotInitialized"}

\* C5, amended: such a save never succeeds; on an initialized store it fails
\* with the consistency error when the entity passes the validation of its
\* kind, and with that validation's error when it does not.
C5_MismatchNeverSaved ==
  MismatchReported =>
    /\ ret.status = "rejected"
    /\ ret.error \in {"NotInitialized", "InvalidOriginID",
                      ShapeError(ret.args.entity, ret.args.storeName)}
    /\ ret.error = "InvalidOriginID" <=>
         (ret.error # "NotInitialized"
            /\ ShapeError(ret.args.entity, ret.args.storeName) = "none")

\* a Subcube of windowUID 11 and cubeId 1 saved with originID "11", which is
\* refused with the consistency error
C5_Witness ==
  /\ MismatchReported
  /\ ret.error = "InvalidOriginID"
  /\ Field(ret.args.entity, "windowUID") = Num(11)
  /\ Field(ret.args.entity, "cubeId") = Num(1)
  /\ Field(ret.args.entity, "originID") = s11

\* C6: a save that fails validation or the originID check attempts no write:
\* from the call to the rejection no step changes an object store, and the
\* rejecting step leaves no transaction open and no put issued.
C6_FailedSaveWritesNothing ==
  [][/\ (call.op = "save" /\ call.pc = "validated") => store' = store
     /\ (/\ ret' # ret
         /\ ret'.op = "save"
         /\ ret'.status = "rejected"
         /\ ret'.error \in ValidationErrors \cup {"InvalidOriginID"}) =>
          (/\ store' = store
           /\ tx'.state = "none"
           /\ tx'.queue = <<>>
           /\ call'.op = "none")]_vars

\* a save refused with the consistency error on a store that holds records
C6_Witness ==
  /\ ret.op = "save"
  /\ ret.status = "rejected"
  /\ ret.error = "InvalidOriginID"
  /\ store # EmptyStores

\* the weight a stored vertex carries: value[2] of a SubcubeVertex,
\* valueArray[2] of a vertex that carries the 4-tuple under valueArray
WeightOf(entity) ==
  IF IsArray(Field(entity, "value")) THEN At(Field(entity, "value"), 2)
  ELSE IF IsArray(Field(entity, "valueArray")) /\ Length(Field(entity, "valueArray")) = 4
  THEN At(Field(entity, "valueArray"), 2)
  ELSE Undefined

Abs(n) == IF n >= 0 THEN n ELSE -n

\* C7: every stored vertex that carries a numeric weight has
\* proximityPadding = abs(weight).
C7_PaddingIsAbsWeight ==
  \A storeName \in {"CubeVertices", "SubcubeVertices"} :
    \A k \in DOMAIN store[storeName] :
      LET entity == store[storeName][k]
      IN  IsNumber(WeightOf(entity)) =>
            Field(entity, "proximityPadding") = Num(Abs(WeightOf(entity)[2]))

\* C8: a get of the key of the entity a save has just reported saved returns
\* that entity.
C8_RoundTrip ==
  [][(/\ ret.op = "save"
      /\ ret.status = "resolved"
      /\ ret'.op = "get"
      /\ ret'.status = "resolved"
      /\ ret'.args = <<ExtractKey(ret.args.entity, ret.args.storeName), ret.args.storeName>>) =>
       ret'.value = ret.args.entity]_vars

\* C9: a call made while this.db is null (before init has succeeded, or after
\* close) is rejected at once with the NotInitialized error, and leaves the
\* stores, the transaction and the spatial index as they were.
C9_NotInitialized ==
  [][(hist'.n = hist.n + 1 /\ db = "null") =>
       /\ ret'.status = "rejected"
       /\ ret'.error = "NotInitialized"
       /\ store' = store
       /\ tx'.state = "none"
       /\ call'.op = "none"
       /\ spatialIndex' = spatialIndex]_vars

\* updateCubeHierarchy refused after close, on a store that holds records
C9_Witness ==
  /\ ret.op = "updateCubeHierarchy"
  /\ ret.error = "NotInitialized"
  /\ db = "null"
  /\ store # EmptyStores

\* the object store each kind of a query result comes from
StoreOfKind(kind) ==
  CASE kind = "cubes" -> "Cubes"
    [] kind = "subcubes" -> "Subcubes"
    [] OTHER -> "SubcubeVertices"

\* the squared Euclidean distance of two integer points
Dist2(a, b) ==
  (a[2][1][2] - b[2][1][2]) * (a[2][1][2] - b[2][1][2])
    + (a[2][2][2] - b[2][2][2]) * (a[2][2][2] - b[2][2][2])
    + (a[2][3][2] - b[2][3][2]) * (a[2][3][2] - b[2][3][2])

\* the records of a kind, in the stores the index was built from, that are of
\* the index's window and within the radius of the point
WithinRadius(kind, position, radius) ==
  LET recs == hist.snap[StoreOfKind(kind)]
  IN  {recs[k] : k \in {j \in DOMAIN recs :
         /\ Field(recs[j], "windowUID") = spatialIndex.windowUID
         /\ radius >= 0
         /\ Dist2(PositionOf(kind, recs[j]), position) <= radius * radius}}

\* C10: a query on a built index returns exactly the cubes, subcubes and
\* subcube vertices of the index's window, as they were when the index was
\* built, that lie within the radius of the point (the boundary included),
\* each of them once.
C10_QueryExact ==
  ret.op = "queryNearPosition" =>
    \A kind \in {"cubes", "subcubes", "subcubeVertices"} :
      LET got == Field(ret.value, kind)[2]
      IN  /\ NoDuplicates(got)
          /\ Elements(got) = WithinRadius(kind, ret.args[1], ret.args[2])

\* a query that returned a record of another cell than the point's, one at
\* exactly the radius, and left out a record of the window that is farther
C10_Witness ==
  /\ ret.op = "queryNearPosition"
  /\ ret.args[2] = 50
  /\ \E e \in Elements(Field(ret.value, "subcubes")[2]) :
       /\ Dist2(Field(e, "center"), ret.args[1]) = 50 * 50
  /\ \E e \in Elements(Field(ret.value, "subcubeVertices")[2]) :
       getBinCoords(At(Field(e, "value"), 1), spatialIndex.binSize)
         # getBinCoords(ret.args[1], spatialIndex.binSize)
  /\ \E k \in DOMAIN hist.snap["Cubes"] :
       /\ Field(hist.snap["Cubes"][k], "windowUID") = spatialIndex.windowUID
       /\ hist.snap["Cubes"][k] \notin Elements(Field(ret.value, "cubes")[2])

\* a step in which buildSpatialIndex returns a new index
BuildStep == hist'.n = hist.n + 1 /\ ret'.op = "buildSpatialIndex"

\* C11: a built index is a snapshot: no step other than a new build (no save,
\* no updateCubeHierarchy, no commit or abort of their transactions, no query)
\* changes the result of any queryNearPosition(point, radius) on it (a query
\* is a function of the index object, so an unchanged object answers the same).
C11_IndexIsSnapshot ==
  [][(spatialIndex.built /\ ~BuildStep) =>
       \/ spatialIndex' = spatialIndex
       \/ \A position \in QueryPoints, radius \in Radii :
            queryNearPosition(spatialIndex', position, radius)
              = queryNearPosition(spatialIndex, position, radius)]_vars

\* the index was built, the stores were written since, and a query on the
\* index has answered what the stores held at the build, not what they hold
C11_Witness ==
  /\ spatialIndex.built
  /\ store # hist.snap
  /\ ret.op = "queryNearPosition"
  /\ LET fresh == queryNearPosition(buildSpatialIndex(store, spatialIndex.windowUID,
                                                      spatialIndex.binSize),
                                    ret.args[1], ret.args[2])
     IN  ret.value # Obj([kind \in DOMAIN fresh |-> Arr(fresh[kind])])

\* C12: the Map an earlier createBins call returned keeps, after every later
\* call on the same Painter, the keys, colors, active flags and depths it had
\* when it was returned.
C12_ReturnedMapKept ==
  (paints.kept.op = "createBins" /\ paints.kept.status = "resolved") =>
    MapNow(paints.kept) = paints.kept.value

\* C13: a createBins call returns the same bins (keys, colors, active flags,
\* depths), or throws the same error, as an earlier call with the same
\* entities and isBackground flag on that Painter, whatever was painted in
\* between.
C13_Deterministic ==
  (paints.kept.op = "createBins" /\ ret.op = "createBins" /\ ret.args = paints.kept.args) =>
    /\ ret.status = paints.kept.status
    /\ ret.error = paints.kept.error
    /\ ret.value = paints.kept.value

\* the same list painted again after a different one, with bins both times
C13_Witness ==
  /\ paints.kept.op = "createBins"
  /\ ret.op = "createBins"
  /\ ret.args = paints.kept.args
  /\ paints.mixed
  /\ ret.status = "resolved"
  /\ Len(ret.value[2]) >= 2

\* the list holds one entity with one vertex, which carries a 4-tuple
IsSoleVertex(data) ==
  /\ Len(data) = 1
  /\ IsArray(At(Field(data[1], "value"), 2))
  /\ Length(At(Field(data[1], "value"), 2)) = 1
  /\ IsArray(Field(At(At(Field(data[1], "value"), 2), 0), "valueArray"))
  /\ Length(Field(At(At(Field(data[1], "value"), 2), 0), "valueArray")) = 4

\* the 4-tuple of that vertex
SoleTuple(data) == Field(At(At(Field(data[1], "value"), 2), 0), "valueArray")

\* min(255, n)
Clamp(n) == IF n > 255 THEN 255 ELSE n

\* min(255, base + incoming + ambient) per channel, on integers
Additive(base, incoming, ambient) ==
  Arr([i \in 1..3 |-> Num(Clamp(base[2][i][2] + incoming[2][i][2] + ambient[2][i][2]))])

\* C14: a vertex whose identifier is no key of the strategy registry is
\* blended with blendBackground and raises no error: painted alone, its bin
\* gets min(255, ambient + color + ambient) per channel.
C14_UnknownIsBackground ==
  (/\ ret.op = "createBins"
   /\ IsSoleVertex(ret.args[1])
   /\ IsString(At(SoleTuple(ret.args[1]), 3))
   /\ \A s \in OwnStrategies : At(SoleTuple(ret.args[1]), 3) # Str(<<s>>)) =>
    /\ ret.status = "resolved"
    /\ Len(ret.value[2]) = 1
    /\ ret.value[2][1].color
         = Additive(painter.ambientValue, At(SoleTuple(ret.args[1]), 0), painter.ambientValue)

\* C15: blendBackground(base, incoming, {ambient}) returns, per channel,
\* min(255, base + incoming + ambient): no channel above 255, and a sum of at
\* most 255 as it is.
C15_BlendBackgroundClamps ==
  (ret.op = "blend" /\ ret.args[4] = Name("blendBackground")) =>
    /\ ret.status = "resolved"
    /\ ret.value = Additive(ret.args[1], ret.args[2], painter.ambientValue)
    /\ \A i \in 1..3 :
         LET sum == ret.args[1][2][i][2] + ret.args[2][2][i][2] + painter.ambientValue[2][i][2]
         IN  /\ ret.value[2][i][2] <= 255
             /\ sum <= 255 => ret.value[2][i][2] = sum

\* blendBackground([10,10,10], [250,250,10], {ambient: [10,10,10]}) has
\* returned [255,255,30]
C15_Witness ==
  /\ ret.op = "blend"
  /\ ret.args[1] = P(10, 10, 10)
  /\ ret.args[2] = P(250, 250, 10)
  /\ ret.args[4] = Name("blendBackground")
  /\ painter.ambientValue = P(10, 10, 10)
  /\ ret.value = P(255, 255, 30)

\* C16: on an initialized store, get of a key the store holds no record for
\* resolves with undefined, and getAllByIndex, on an index the store has, of a
\* value no stored record has resolves with an empty list: a miss is no error.
C16_MissIsNoError ==
  [][(hist'.n = hist.n + 1 /\ db = "open") =>
       /\ (ret'.op = "get" /\ ret'.args[1] \notin DOMAIN store[ret'.args[2]]) =>
            (ret'.status = "resolved" /\ ret'.value = Undefined)
       /\ (/\ ret'.op = "getAllByIndex"
           /\ ret'.args[1] \in Indexes(ret'.args[3])
           /\ \A k \in DOMAIN store[ret'.args[3]] :
                Field(store[ret'.args[3]][k], ret'.args[1]) # ret'.args[2]) =>
            (ret'.status = "resolved" /\ ret'.value = Arr(<<>>))]_vars

\* a get that missed in an object store that holds records
C16_Witness ==
  /\ ret.op = "get"
  /\ ret.status = "resolved"
  /\ ret.value = Undefined
  /\ DOMAIN store[ret.args[2]] # {}
  /\ ret.args[1] \notin DOMAIN store[ret.args[2]]

\* C17: createBins of a non-empty list of Cube and Subcube entities as the
\* model constructors build them, each with at least one vertex, raises no
\* error and returns a map holding the bin of every one of their vertices.
C17_AcceptsBuiltParents ==
  (/\ ret.op = "createBins"
   /\ ret.args[1] # <<>>
   /\ \A i \in 1..Len(ret.args[1]) : ret.args[1][i] \in {cube1, subcube1}) =>
    /\ ret.status = "resolved"
    /\ ret.value[2] # <<>>

\* C18: a CubeVertex and a SubcubeVertex built by the model constructors
\* (in-range colour, 3-element position, numeric weight, string identifier,
\* matching originID) pass validate for their kind: a save of one is never
\* rejected by the validation.
C18_BuiltVerticesValidate ==
  (/\ ret.op = "save"
   /\ ret.args \in {Request("CubeVertices", vertex1),
                    Request("SubcubeVertices", subcubeVertex1)}) =>
    ret.error \notin ValidationErrors

\* the vertices of all the items of a list, in input order
RECURSIVE AllVertices(_)
AllVertices(data) ==
  IF data = <<>> THEN <<>>
  ELSE VerticesOf(Head(data))[2] \o AllVertices(Tail(data))

\* the strategy identifier a vertex carries, or the default
LogicOf(vertex) ==
  Or(Or(Index(Prop(vertex, "valueArray"), 3), Index(vertex, 1)), Name("blendBackground"))

\* the vertex contributes: z <= maxDepth + 1
Contributes(vertex, maxDepth) ==
  JsLeq(Index(Carried(vertex, 1), 2), JsAdd(maxDepth, Num(1)))

\* the left fold of blend over the contributing vertices that map to the bin
\* binKey, in the order of the sequence, from the colour given
RECURSIVE FoldColor(_, _, _, _, _, _)
FoldColor(p, color, vertices, binKey, isBackground, maxDepth) ==
  IF vertices = <<>> THEN color
  ELSE IF BinKeyOf(Carried(Head(vertices), 1), p.binSize, isBackground) # binKey
            \/ ~Contributes(Head(vertices), maxDepth)
  THEN FoldColor(p, color, Tail(vertices), binKey, isBackground, maxDepth)
  ELSE FoldColor(p, blend(p.ambientValue, color, Carried(Head(vertices), 0),
                          Carried(Head(vertices), 2), LogicOf(Head(vertices))),
                 Tail(vertices), binKey, isBackground, maxDepth)

\* the colour of one vertex blended into the colour given
Blended(p, color, vertex) ==
  blend(p.ambientValue, color, Carried(vertex, 0), Carried(vertex, 2), LogicOf(vertex))

\* C19: the colour of every bin createBins returns is the left fold of blend
\* over the contributing vertices that map to the bin, in input order (items
\* in list order, vertices in item order), from the ambient value; and the
\* order matters:
\* BlendVrtxByWeight gives different colours for two vertices blended in the
\* two orders.
C19_LeftFoldInInputOrder ==
  /\ (ret.op = "createBins" /\ ret.status = "resolved") =>
       \A i \in 1..Len(ret.value[2]) :
         ret.value[2][i].color
           = FoldColor(painter, painter.ambientValue, AllVertices(ret.args[1]),
                       ret.value[2][i].key, ret.args[2], findFarthestDepth(ret.args[1]))
  /\ Blended(painter, Blended(painter, painter.ambientValue, red), green)
       # Blended(painter, Blended(painter, painter.ambientValue, green), red)

\* the same two vertices were painted into one bin in the two orders, and the
\* bin took different colours
C19_Witness ==
  /\ paints.kept.op = "createBins" /\ paints.kept.status = "resolved"
  /\ ret.op = "createBins" /\ ret.status = "resolved"
  /\ paints.kept.args[1] = <<Item(<<green>>), Item(<<red>>)>>
  /\ ret.args[1] = <<Item(<<red, green>>)>>
  /\ paints.kept.args[2] = ret.args[2]
  /\ Len(ret.value[2]) = 1 /\ Len(paints.kept.value[2]) = 1
  /\ ret.value[2][1].key = paints.kept.value[2][1].key
  /\ ret.value[2][1].color # paints.kept.value[2][1].color

\* the weight a vertex carries in its 4-tuple
TupleWeight(vertex) == Index(Prop(vertex, "valueArray"), 2)

\* every vertex of the list carries BlendVrtxByWeight and a numeric weight
AllWeighted(data) ==
  /\ data # <<>>
  /\ \A i \in 1..Len(data) : IsArray(VerticesOf(data[i]))
  /\ \A i \in 1..Len(AllVertices(data)) :
       /\ Index(Prop(AllVertices(data)[i], "valueArray"), 3) = Name("BlendVrtxByWeight")
       /\ IsNumber(TupleWeight(AllVertices(data)[i]))

\* base*(1-w) + incoming*w + ambient, per channel
Weighted(base, incoming, w, ambient) ==
  Arr([i \in 1..3 |-> Num(base[2][i][2] * (1 - w[2]) + incoming[2][i][2] * w[2]
                            + ambient[2][i][2])])

\* the weighted blends of the vertices of the bin binKey, in order
RECURSIVE WeightedFold(_, _, _, _, _)
WeightedFold(p, color, vertices, binKey, isBackground) ==
  IF vertices = <<>> THEN color
  ELSE IF BinKeyOf(Index(Prop(Head(vertices), "valueArray"), 1), p.binSize, isBackground)
            # binKey
  THEN WeightedFold(p, color, Tail(vertices), binKey, isBackground)
  ELSE WeightedFold(p, Weighted(color, Index(Prop(Head(vertices), "valueArray"), 0),
                                TupleWeight(Head(vertices)), p.ambientValue),
                    Tail(vertices), binKey, isBackground)

\* C20: createBins of vertices that carry BlendVrtxByWeight and a numeric
\* weight w, w = 0 and w = 1 included, raises no error, and the colour of each
\* bin becomes base*(1-w) + incoming*w + ambient per channel, vertex after
\* vertex, with the weight of the vertex and the ambient value of the painter.
C20_WeightedByOwnWeight ==
  (ret.op = "createBins" /\ AllWeighted(ret.args[1])) =>
    /\ ret.status = "resolved"
    /\ \A i \in 1..Len(ret.value[2]) :
         ret.value[2][i].color
           = WeightedFold(painter, painter.ambientValue, AllVertices(ret.args[1]),
                          ret.value[2][i].key, ret.args[2])

\* a 3-element array of numbers
NumericTriple(v) ==
  IsArray(v) /\ Length(v) = 3 /\ \A i \in 1..3 : TypeofNumber(v[2][i]) /\ v[2][i] # NaN

\* [color, position, weight, identifier] with a colour of three channels in
\* [0,255], a position of three numbers, a numeric weight and a string
WellFormedTuple(v) ==
  /\ IsArray(v) /\ Length(v) = 4
  /\ NumericTriple(v[2][1])
  /\ \A i \in 1..3 : IsNumber(v[2][1][2][i]) /\ v[2][1][2][i][2] \in 0..255
  /\ NumericTriple(v[2][2])
  /\ TypeofNumber(v[2][3]) /\ v[2][3] # NaN
  /\ IsString(v[2][4])

\* C21: on an initialized store, validate for a vertex kind accepts an entity
\* if and only if its valueArray is the 4-tuple [color, position, weight,
\* identifier] with a numeric 3-element colour in [0,255], a numeric 3-element
\* position, a numeric weight and a string identifier: a non-numeric element
\* of the colour or of the position makes it reject.
C21_AcceptsExactlyTheTuple ==
  (ret.op = "validateEntity" /\ ret.error # "NotInitialized") =>
    (ret.status = "resolved" <=> WellFormedTuple(Field(ret.args[1], "valueArray")))

TuplePosition(vertex) == Index(Prop(vertex, "valueArray"), 1)

\* floor(x/binSize), floor(y/binSize) and, for a background, floor(z/binSize)
CellOf(position, binSize, isBackground) ==
  IF isBackground
  THEN <<position[2][1][2] \div binSize, position[2][2][2] \div binSize,
         position[2][3][2] \div binSize>>
  ELSE <<position[2][1][2] \div binSize, position[2][2][2] \div binSize>>

\* the positions of the list are triples of numbers
AllPlaced(data) ==
  /\ data # <<>>
  /\ \A i \in 1..Len(data) : IsArray(VerticesOf(data[i]))
  /\ \A i \in 1..Len(AllVertices(data)) :
       /\ IsArray(TuplePosition(AllVertices(data)[i]))
       /\ Length(TuplePosition(AllVertices(data)[i])) = 3
       /\ \A k \in 1..3 : IsNumber(TuplePosition(AllVertices(data)[i])[2][k])

\* the index of the bin of the map that holds the vertex (0: none does)
BinOf(bins, vertex, binSize, isBackground) ==
  IF \E i \in 1..Len(bins) :
       bins[i].key = BinKeyOf(TuplePosition(vertex), binSize, isBackground)
  THEN CHOOSE i \in 1..Len(bins) :
         bins[i].key = BinKeyOf(TuplePosition(vertex), binSize, isBackground)
  ELSE 0

\* C23: in the map createBins returns, every vertex has a bin, and two
\* vertices share a bin if and only if floor(x/binSize) and floor(y/binSize)
\* are equal and, only when isBackground, floor(z/binSize) is equal too; no
\* bin is without a vertex.
C23_KeyedByCell ==
  (ret.op = "createBins" /\ ret.status = "resolved" /\ AllPlaced(ret.args[1])) =>
    /\ \A i, j \in 1..Len(AllVertices(ret.args[1])) :
         /\ BinOf(ret.value[2], AllVertices(ret.args[1])[i], painter.binSize, ret.args[2]) # 0
         /\ (BinOf(ret.value[2], AllVertices(ret.args[1])[i], painter.binSize, ret.args[2])
               = BinOf(ret.value[2], AllVertices(ret.args[1])[j], painter.binSize, ret.args[2]))
              <=> (CellOf(TuplePosition(AllVertices(ret.args[1])[i]), painter.binSize,
                          ret.args[2])
                     = CellOf(TuplePosition(AllVertices(ret.args[1])[j]), painter.binSize,
                              ret.args[2]))
    /\ Len(ret.value[2])
         = Cardinality({CellOf(TuplePosition(AllVertices(ret.args[1])[i]), painter.binSize,
                               ret.args[2]) : i \in 1..Len(AllVertices(ret.args[1]))})

\* two vertices of equal row and column and of different depth bins were
\* painted into one bin, not as a background
C23_Witness ==
  /\ ret.op = "createBins" /\ ret.status = "resolved" /\ AllPlaced(ret.args[1])
  /\ ~ret.args[2]
  /\ Len(ret.value[2]) = 1
  /\ \E i, j \in 1..Len(AllVertices(ret.args[1])) :
       TuplePosition(AllVertices(ret.args[1])[i])[2][3][2] \div painter.binSize
         # TuplePosition(AllVertices(ret.args[1])[j])[2][3][2] \div painter.binSize

\* the z of the vertices of the sequence that map to the bin binKey, in order
RECURSIVE DepthsOf(_, _, _, _)
DepthsOf(vertices, binKey, binSize, isBackground) ==
  IF vertices = <<>> THEN <<>>
  ELSE IF BinKeyOf(Carried(Head(vertices), 1), binSize, isBackground) = binKey
  THEN <<Index(Carried(Head(vertices), 1), 2)>>
         \o DepthsOf(Tail(vertices), binKey, binSize, isBackground)
  ELSE DepthsOf(Tail(vertices), binKey, binSize, isBackground)

\* the first element, or the largest one, of a sequence of z
DepthExpected(depths, isBackground) ==
  IF isBackground
  THEN CHOOSE z \in Elements(depths) : \A other \in Elements(depths) : other[2] <= z[2]
  ELSE depths[1]

\* C24: the depth of a bin createBins returns is, for a background, the
\* largest z of the vertices (of numeric position) that fell in the bin, and
\* otherwise the z of the first vertex, in input order, that fell in the bin.
C24_DepthOfBin ==
  (/\ ret.op = "createBins" /\ ret.status = "resolved"
   /\ ret.args[2] => AllPlaced(ret.args[1])) =>
    \A i \in 1..Len(ret.value[2]) :
      ret.value[2][i].depth
        = DepthExpected(DepthsOf(AllVertices(ret.args[1]), ret.value[2][i].key,
                                 painter.binSize, ret.args[2]), ret.args[2])

\* not as a background, a bin kept the z of its first vertex though a
\* farther vertex fell in it later
C24_Witness ==
  /\ ret.op = "createBins" /\ ret.status = "resolved" /\ ~ret.args[2]
  /\ \E i \in 1..Len(ret.value[2]) :
       \E z \in Elements(DepthsOf(AllVertices(ret.args[1]), ret.value[2][i].key,
                                  painter.binSize, FALSE)) :
         JsLess(ret.value[2][i].depth, z)

\* how many times the element occurs in the sequence
Occurrences(list, e) == Cardinality({i \in 1..Len(list) : list[i] = e})

\* the two lists hold the same vertices, each as many times
SameVertices(data, other) ==
  /\ Len(AllVertices(data)) = Len(AllVertices(other))
  /\ \A i \in 1..Len(AllVertices(data)) :
       Occurrences(AllVertices(data), AllVertices(data)[i])
         = Occurrences(AllVertices(other), AllVertices(data)[i])

\* every vertex of the list resolves to blendBackground and has a colour of
\* non-negative channels
AllAdditive(data) ==
  /\ data # <<>>
  /\ \A i \in 1..Len(data) : IsArray(VerticesOf(data[i]))
  /\ \A i \in 1..Len(AllVertices(data)) :
       /\ ResolvedStrategy(LogicOf(AllVertices(data)[i])) = "blendBackground"
       /\ \A k \in 0..2 :
            /\ IsNumber(Index(Carried(AllVertices(data)[i], 0), k))
            /\ Index(Carried(AllVertices(data)[i], 0), k)[2] >= 0

\* the keys of a map, each with the colour of its bin
Colors(map) == {<<map[2][i].key, map[2][i].color>> : i \in 1..Len(map[2])}

\* C26: when every vertex resolves to blendBackground and the channels of the
\* colours and of the ambient value are not negative, two createBins calls on
\* lists that hold the same vertices in different orders return the same keys
\* with the same colours, and every channel of every bin is in [0,255].
C26_AdditiveOrderFree ==
  /\ (/\ ret.op = "createBins" /\ ret.status = "resolved"
      /\ paints.kept.op = "createBins" /\ paints.kept.status = "resolved"
      /\ ret.args[2] = paints.kept.args[2]
      /\ AllAdditive(ret.args[1]) /\ AllAdditive(paints.kept.args[1])
      /\ SameVertices(ret.args[1], paints.kept.args[1])) =>
       Colors(ret.value) = Colors(paints.kept.value)
  /\ (ret.op = "createBins" /\ ret.status = "resolved" /\ AllAdditive(ret.args[1])) =>
       \A i \in 1..Len(ret.value[2]), k \in 1..3 :
         /\ IsNumber(ret.value[2][i].color[2][k])
         /\ ret.value[2][i].color[2][k][2] \in 0..255

\* two additive vertices were painted into one bin in the two orders, a
\* channel was clamped, and the bin took the same colour
C26_Witness ==
  /\ paints.kept.op = "createBins" /\ paints.kept.status = "resolved"
  /\ ret.op = "createBins" /\ ret.status = "resolved"
  /\ paints.kept.args[1] = <<Item(<<near>>), Item(<<bright>>)>>
  /\ ret.args[1] = <<Item(<<bright, near>>)>>
  /\ paints.kept.args[2] = ret.args[2]
  /\ Colors(ret.value) = Colors(paints.kept.value)
  /\ \E i \in 1..Len(ret.value[2]) : ret.value[2][i].color[2][1] = Num(255)

\* the n-th call is a write whose promise is pending
Suspended(n) == hist.n = n /\ call.op \in WriteOps /\ call.promise = "pending"
\* the n-th call is a write that reported its outcome
Reported(n) == hist.n = n /\ ret.op \in WriteOps /\ ret.status \in {"resolved", "rejected"}

\* C25: every call of save, updateCubeHierarchy and batchUpdateMatrices
\* either reports an outcome at once or leaves its promise pending, and a
\* pending promise is settled once IndexedDB has answered the requests; an
\* empty batch and a bundle of a cube alone do not stay pending.
C25_WritesReport ==
  /\ [][(hist'.n = hist.n + 1)
          => \/ call'.op \in WriteOps /\ call'.promise = "pending"
             \/ ret'.op \in WriteOps /\ ret'.status \in {"resolved", "rejected"}]_vars
  /\ \A n \in 1..MaxCalls : Suspended(n) ~> Reported(n)

\* a bundle of a cube alone was written and reported, and then an empty batch
\* was reported as rejected
C25_Witness ==
  /\ hist.n = 2
  /\ ret.op = "batchUpdateMatrices"
  /\ ret.args = <<>>
  /\ ret.status = "rejected" /\ ret.error = "InvalidAccessError"
  /\ DOMAIN store["Cubes"] # {}
  /\ DOMAIN store["Subcubes"] = {}

====
